---- MODULE Spec2Model ----
(***************************************************************************)
(* KPI engine of the RCM analytics dashboard (src/kpi_calculator.py).      *)
(*                                                                         *)
(* Time is counted in whole hours from 00:00 of the first day of the first *)
(* month of MonthDays.  A pandas DataFrame is a sequence of rows (records); *)
(* a float is an exact rational, or one of the IEEE values nan, inf, -inf  *)
(* that numpy produces when a float64 is divided by zero.                  *)
(***************************************************************************)
EXTENDS Integers, Sequences, FiniteSets, TLC

VARIABLES
    assets,             \* assets_df: rows [AssetID, OperationalStatus]
    failures,           \* failures_df: rows [AssetID, FailureDate, DowntimeHours]
    failure_columns,    \* failures_df.columns
    maintenance_costs,  \* maintenance_costs_df: rows [Date, Amount]
    work_orders,        \* data['work_orders']: rows [AssetID, Status]
    period_days,        \* the period_days argument of calculate_failure_rate
    now,                \* what datetime.now() returns, in hours
    ret,                \* the dict each function called so far returned, by function name
    before,             \* what the call before the last returned, by function name
    clock_reads,        \* what datetime.now() returned inside the last
                        \* calculate_all_kpis, by function name
    selection,          \* the sidebar filters: asset_type, location, criticality, date_range
    table_columns       \* df.columns of each table of data, by table name

\* The collections and arguments the functions are called with.
inputs ==
    <<assets, failures, failure_columns, maintenance_costs, work_orders, period_days,
      selection, table_columns>>

vars == <<inputs, now, ret, before, clock_reads>>

-----------------------------------------------------------------------------
(* Bounds of the model. *)

MaxFailures == 3
MaxAssets == 2
MaxCosts == 2
MaxFleet == 3

-----------------------------------------------------------------------------
(* Program constants. *)

HoursPerDay == 24
WindowDays == 30
PercentScale == 100
DefaultPeriodDays == 30

-----------------------------------------------------------------------------
(* float64 arithmetic: [k, n, d]; k = "fin" is the rational n/d in lowest   *)
(* terms with d > 0.                                                       *)

Abs(x) == IF x < 0 THEN -x ELSE x

RECURSIVE Gcd(_, _)
Gcd(a, b) == IF b = 0 THEN a ELSE Gcd(b, a % b)

Fin(n, d) ==
    LET s == IF d < 0 THEN -1 ELSE 1
        g == Gcd(Abs(n), Abs(d))
    IN  [k |-> "fin", n |-> (s * n) \div g, d |-> (s * d) \div g]

Int2F(i) == [k |-> "fin", n |-> i, d |-> 1]
Zero == Int2F(0)
NaN == [k |-> "nan", n |-> 0, d |-> 1]
PosInf == [k |-> "inf", n |-> 1, d |-> 1]
NegInf == [k |-> "inf", n |-> -1, d |-> 1]

IsFinite(x) == x.k = "fin"
Sign(x) == IF x.n > 0 THEN 1 ELSE IF x.n < 0 THEN -1 ELSE 0

FAdd(a, b) ==
    IF a.k = "nan" \/ b.k = "nan" THEN NaN
    ELSE IF a.k = "inf" /\ b.k = "inf" THEN (IF a.n = b.n THEN a ELSE NaN)
    ELSE IF a.k = "inf" THEN a
    ELSE IF b.k = "inf" THEN b
    ELSE Fin(a.n * b.d + b.n * a.d, a.d * b.d)

FSub(a, b) ==
    IF a.k = "nan" \/ b.k = "nan" THEN NaN
    ELSE IF a.k = "inf" /\ b.k = "inf" THEN (IF a.n = b.n THEN NaN ELSE a)
    ELSE IF a.k = "inf" THEN a
    ELSE IF b.k = "inf" THEN [b EXCEPT !.n = -b.n]
    ELSE Fin(a.n * b.d - b.n * a.d, a.d * b.d)

FMul(a, b) ==
    IF a.k = "nan" \/ b.k = "nan" THEN NaN
    ELSE IF a.k = "inf" \/ b.k = "inf"
         THEN (IF Sign(a) * Sign(b) = 0 THEN NaN
               ELSE IF Sign(a) * Sign(b) > 0 THEN PosInf ELSE NegInf)
    ELSE Fin(a.n * b.n, a.d * b.d)

\* numpy.float64 / numpy.float64: a zero divisor gives inf, -inf or nan and a
\* RuntimeWarning, never an exception.
FDiv(a, b) ==
    IF a.k = "nan" \/ b.k = "nan" THEN NaN
    ELSE IF a.k = "inf" THEN (IF b.k = "inf" THEN NaN
                              ELSE IF Sign(b) < 0 THEN [a EXCEPT !.n = -a.n] ELSE a)
    ELSE IF b.k = "inf" THEN Zero
    ELSE IF b.n = 0 THEN (IF a.n = 0 THEN NaN ELSE IF a.n > 0 THEN PosInf ELSE NegInf)
    ELSE Fin(a.n * b.d, a.d * b.n)

\* a <= b on finite values.
FLe(a, b) == a.n * b.d <= b.n * a.d

\* max(0, x) on a finite x.
Max0(x) == IF FLe(x, Zero) THEN Zero ELSE x

-----------------------------------------------------------------------------
(* Sequences as DataFrames and lists. *)

RECURSIVE SumSeq(_)
SumSeq(s) == IF s = <<>> THEN 0 ELSE Head(s) + SumSeq(Tail(s))

Column(df, name) == [i \in 1..Len(df) |-> df[i][name]]

\* Series.unique(): the distinct values in order of first appearance.
RECURSIVE Unique(_)
Unique(s) ==
    IF s = <<>> THEN <<>>
    ELSE LET u == Unique(SubSeq(s, 1, Len(s) - 1))
             x == s[Len(s)]
         IN  IF \E i \in 1..Len(u) : u[i] = x THEN u ELSE Append(u, x)

\* DataFrame.sort_values('FailureDate'): ascending; rows with equal dates keep
\* some order, which no caller can observe through the dates.
RECURSIVE InsertByDate(_, _)
InsertByDate(sorted, row) ==
    IF sorted = <<>> THEN <<row>>
    ELSE IF row.FailureDate < Head(sorted).FailureDate THEN <<row>> \o sorted
    ELSE <<Head(sorted)>> \o InsertByDate(Tail(sorted), row)

\* Faulty variant: the rows are left in the order given.
sort_values_skipped(df) == df

RECURSIVE sort_values(_)
sort_values(df) ==
    IF df = <<>> THEN <<>>
    ELSE InsertByDate(sort_values(SubSeq(df, 1, Len(df) - 1)), df[Len(df)])

\* Series.diff().dropna() on the FailureDate column, in hours.
diff(df) == [i \in 1..(Len(df) - 1) |-> df[i + 1].FailureDate - df[i].FailureDate]

RECURSIVE FSum(_)
FSum(s) == IF s = <<>> THEN Zero ELSE FAdd(Head(s), FSum(Tail(s)))

\* np.mean(list) and Series.mean(): sum / count in float64; the mean of
\* nothing is nan.
Mean(s) == FDiv(FSum(s), Int2F(Len(s)))

-----------------------------------------------------------------------------
(* KPICalculator: each function takes what datetime.now() returns as clock. *)

\* Faulty variant: the window ends WindowDays after its cutoff.
recent_failures_until_now(failures_df, cutoff_date) ==
    SelectSeq(failures_df, LAMBDA r : /\ r.FailureDate >= cutoff_date
                                      /\ r.FailureDate <= cutoff_date + WindowDays * HoursPerDay)

\* failures_df[failures_df['FailureDate'] >= cutoff_date]
\* Faulty variant: a failure dated exactly at the cutoff is left out.
recent_failures_after(failures_df, cutoff_date) ==
    SelectSeq(failures_df, LAMBDA r : r.FailureDate > cutoff_date)

recent_failures(failures_df, cutoff_date) ==
    SelectSeq(failures_df, LAMBDA r : r.FailureDate >= cutoff_date)

\* Faulty variant: the previous window has no lower edge.
previous_failures_unbounded(failures_df, cutoff_date) ==
    SelectSeq(failures_df, LAMBDA r : r.FailureDate < cutoff_date)

\* failures_df[(FailureDate >= cutoff_date - timedelta(days=30)) &
\*             (FailureDate < cutoff_date)]
previous_failures(failures_df, cutoff_date) ==
    SelectSeq(failures_df,
              LAMBDA r : /\ r.FailureDate >= cutoff_date - WindowDays * HoursPerDay
                         /\ r.FailureDate < cutoff_date)

\* time_diffs of one asset: gaps between its consecutive failures, in days.
time_diffs(failures_df, asset_id) ==
    LET asset_failures ==
            sort_values(SelectSeq(failures_df, LAMBDA r : r.AssetID = asset_id))
        d == diff(asset_failures)
    IN  IF Len(asset_failures) > 1
        THEN [i \in 1..Len(d) |-> Fin(d[i], HoursPerDay)]
        ELSE <<>>

\* The loop over failures_df['AssetID'].unique() that extends mtbf_by_asset.
RECURSIVE mtbf_by_asset(_, _)
mtbf_by_asset(failures_df, asset_ids) ==
    IF asset_ids = <<>> THEN <<>>
    ELSE time_diffs(failures_df, Head(asset_ids))
             \o mtbf_by_asset(failures_df, Tail(asset_ids))

\* ((len(previous_failures) - len(recent_failures)) / len(previous_failures)) * 100
count_change(n_previous, n_recent) ==
    FMul(FDiv(Int2F(n_previous - n_recent), Int2F(n_previous)), Int2F(PercentScale))

\* Faulty variant: no early return when the pool of gaps is empty.
calculate_mtbf_unguarded(failures_df, assets_df, clock) ==
    IF failures_df = <<>> THEN [mtbf |-> Zero, mtbf_change |-> Zero]
    ELSE
      LET pool == mtbf_by_asset(failures_df, Unique(Column(failures_df, "AssetID")))
          cutoff_date == clock - WindowDays * HoursPerDay
          n_recent == Len(recent_failures(failures_df, cutoff_date))
          n_previous == Len(previous_failures(failures_df, cutoff_date))
      IN  [mtbf |-> Mean(pool),
           mtbf_change |-> IF n_recent > 0 /\ n_previous > 0
                           THEN count_change(n_previous, n_recent)
                           ELSE Zero]

calculate_mtbf(failures_df, assets_df, clock) ==
    IF failures_df = <<>> THEN [mtbf |-> Zero, mtbf_change |-> Zero]
    ELSE
      LET pool == mtbf_by_asset(failures_df, Unique(Column(failures_df, "AssetID")))
          cutoff_date == clock - WindowDays * HoursPerDay
          n_recent == Len(recent_failures(failures_df, cutoff_date))
          n_previous == Len(previous_failures(failures_df, cutoff_date))
      IN  IF pool = <<>> THEN [mtbf |-> Zero, mtbf_change |-> Zero]
          ELSE [mtbf |-> Mean(pool),
                mtbf_change |-> IF n_recent > 0 /\ n_previous > 0
                                THEN count_change(n_previous, n_recent)
                                ELSE Zero]

\* ((previous_mttr - recent_mttr) / previous_mttr) * 100 on numpy floats.
mean_change(previous_mean, recent_mean) ==
    FMul(FDiv(FSub(previous_mean, recent_mean), previous_mean), Int2F(PercentScale))

Downtimes(df) == [i \in 1..Len(df) |-> Int2F(df[i].DowntimeHours)]

\* Faulty variant: mttr is taken over the current window only.
calculate_mttr_windowed(failures_df, columns, clock) ==
    IF failures_df = <<>> \/ "DowntimeHours" \notin columns
    THEN [mttr |-> Zero, mttr_change |-> Zero]
    ELSE
      LET cutoff_date == clock - WindowDays * HoursPerDay
          recent == recent_failures(failures_df, cutoff_date)
          previous == previous_failures(failures_df, cutoff_date)
      IN  [mttr |-> Mean(Downtimes(recent)),
           mttr_change |-> IF recent # <<>> /\ previous # <<>>
                           THEN mean_change(Mean(Downtimes(previous)),
                                            Mean(Downtimes(recent)))
                           ELSE Zero]

\* Faulty variant: no early return for an empty frame.
calculate_mttr_unguarded(failures_df, columns, clock) ==
    IF "DowntimeHours" \notin columns
    THEN [mttr |-> Zero, mttr_change |-> Zero]
    ELSE
      LET cutoff_date == clock - WindowDays * HoursPerDay
          recent == recent_failures(failures_df, cutoff_date)
          previous == previous_failures(failures_df, cutoff_date)
      IN  [mttr |-> Mean(Downtimes(failures_df)),
           mttr_change |-> IF recent # <<>> /\ previous # <<>>
                           THEN mean_change(Mean(Downtimes(previous)),
                                            Mean(Downtimes(recent)))
                           ELSE Zero]

calculate_mttr(failures_df, columns, clock) ==
    IF failures_df = <<>> \/ "DowntimeHours" \notin columns
    THEN [mttr |-> Zero, mttr_change |-> Zero]
    ELSE
      LET cutoff_date == clock - WindowDays * HoursPerDay
          recent == recent_failures(failures_df, cutoff_date)
          previous == previous_failures(failures_df, cutoff_date)
      IN  [mttr |-> Mean(Downtimes(failures_df)),
           mttr_change |-> IF recent # <<>> /\ previous # <<>>
                           THEN mean_change(Mean(Downtimes(previous)),
                                            Mean(Downtimes(recent)))
                           ELSE Zero]


-----------------------------------------------------------------------------
(* datetime on the hour axis, over the months of MonthDays. *)

\* January to April of a common year.
MonthDays == <<31, 28, 31, 30>>

RECURSIVE DaysBefore(_)
DaysBefore(m) == IF m = 1 THEN 0 ELSE MonthDays[m - 1] + DaysBefore(m - 1)

\* datetime(year, m, day, hour)
Instant(m, day, hour) == (DaysBefore(m) + day - 1) * HoursPerDay + hour

MonthOf(t) ==
    CHOOSE m \in 1..Len(MonthDays) :
        /\ Instant(m, 1, 0) <= t
        /\ t < Instant(m, MonthDays[m], 0) + HoursPerDay

HourOf(t) == t % HoursPerDay

\* datetime.replace(day=1): the month and the time of day are kept.
replace_day1(t) == Instant(MonthOf(t), 1, HourOf(t))

\* t - timedelta(days=n)
minus_days(t, n) == t - n * HoursPerDay

-----------------------------------------------------------------------------
(* calculate_oee and calculate_total_maintenance_cost. *)

quality_rate == Fin(95, 100)
performance_rate == Fin(90, 100)

\* Faulty variant: every asset counts, whatever its status.
active_count_any_status(assets_df) == Len(assets_df)

\* len(assets_df[assets_df['OperationalStatus'] == 'Active'])
active_count(assets_df) ==
    Len(SelectSeq(assets_df, LAMBDA r : r.OperationalStatus = "Active"))

\* Faulty variant: the ratio is not clamped at 0.
availability_unclamped(total_possible_time, total_downtime) ==
    FDiv(Int2F(total_possible_time - total_downtime), Int2F(total_possible_time))

\* max(0, (total_possible_time - total_downtime) / total_possible_time)
availability(total_possible_time, total_downtime) ==
    Max0(FDiv(Int2F(total_possible_time - total_downtime), Int2F(total_possible_time)))

\* random_uniform is the value np.random.uniform(-5, 5) draws.
\* Faulty variant: the random draw is added to oee as well.
calculate_oee_noisy(assets_df, failures_df, clock, random_uniform) ==
    IF assets_df = <<>> \/ active_count(assets_df) = 0
    THEN [oee |-> Zero, oee_change |-> Zero]
    ELSE [oee |-> random_uniform, oee_change |-> random_uniform]

calculate_oee(assets_df, failures_df, clock, random_uniform) ==
    IF assets_df = <<>> THEN [oee |-> Zero, oee_change |-> Zero]
    ELSE
      LET total_assets == active_count(assets_df)
          recent == recent_failures(failures_df, clock - WindowDays * HoursPerDay)
          total_downtime == SumSeq(Column(recent, "DowntimeHours"))
          total_possible_time == total_assets * WindowDays * HoursPerDay
      IN  IF total_assets = 0 THEN [oee |-> Zero, oee_change |-> Zero]
          ELSE [oee |-> FMul(FMul(FMul(availability(total_possible_time, total_downtime),
                                       quality_rate),
                                  performance_rate),
                             Int2F(PercentScale)),
                oee_change |-> random_uniform]

\* datetime.now().replace(day=1)
current_month_start(clock) == replace_day1(clock)

\* (current_month_start - timedelta(days=1)).replace(day=1)
previous_month_start(clock) == replace_day1(minus_days(current_month_start(clock), 1))

\* maintenance_costs_df[Date >= current_month_start]['Amount'].sum()
current_costs(costs_df, clock) ==
    SumSeq(Column(SelectSeq(costs_df, LAMBDA r : r.Date >= current_month_start(clock)),
                  "Amount"))

\* maintenance_costs_df[(Date >= previous_month_start) &
\*                      (Date < current_month_start)]['Amount'].sum()
previous_costs(costs_df, clock) ==
    SumSeq(Column(SelectSeq(costs_df,
                            LAMBDA r : /\ r.Date >= previous_month_start(clock)
                                       /\ r.Date < current_month_start(clock)),
                  "Amount"))

\* ((current_costs - previous_costs) / previous_costs) * 100 on numpy floats.
cost_ratio(current, previous) ==
    FMul(FDiv(FSub(Int2F(current), Int2F(previous)), Int2F(previous)),
         Int2F(PercentScale))

\* Faulty variant: the division is not guarded by previous_costs > 0.
calculate_total_maintenance_cost_unguarded(costs_df, clock) ==
    IF costs_df = <<>> THEN [total_cost |-> Zero, cost_change |-> Zero]
    ELSE [total_cost |-> Int2F(SumSeq(Column(costs_df, "Amount"))),
          cost_change |-> cost_ratio(current_costs(costs_df, clock),
                                     previous_costs(costs_df, clock))]

\* Faulty variant: total_cost sums the two monthly windows only.
calculate_total_maintenance_cost_windowed(costs_df, clock) ==
    IF costs_df = <<>> THEN [total_cost |-> Zero, cost_change |-> Zero]
    ELSE [total_cost |-> Int2F(current_costs(costs_df, clock)
                               + previous_costs(costs_df, clock)),
          cost_change |-> IF previous_costs(costs_df, clock) > 0
                          THEN cost_ratio(current_costs(costs_df, clock),
                                          previous_costs(costs_df, clock))
                          ELSE Zero]

calculate_total_maintenance_cost(costs_df, clock) ==
    IF costs_df = <<>> THEN [total_cost |-> Zero, cost_change |-> Zero]
    ELSE [total_cost |-> Int2F(SumSeq(Column(costs_df, "Amount"))),
          cost_change |-> IF previous_costs(costs_df, clock) > 0
                          THEN cost_ratio(current_costs(costs_df, clock),
                                          previous_costs(costs_df, clock))
                          ELSE Zero]

-----------------------------------------------------------------------------
(* calculate_asset_utilization and calculate_failure_rate. *)

\* Faulty variant: every asset that is not Inactive counts as active.
calculate_asset_utilization_not_inactive(assets_df) ==
    IF assets_df = <<>>
    THEN [utilization |-> Zero, active_assets |-> 0, total_assets |-> 0]
    ELSE
      LET total_assets == Len(assets_df)
          active_assets ==
              Len(SelectSeq(assets_df, LAMBDA r : r.OperationalStatus # "Inactive"))
      IN  [utilization |-> FMul(FDiv(Int2F(active_assets), Int2F(total_assets)),
                                Int2F(PercentScale)),
           active_assets |-> active_assets,
           total_assets |-> total_assets]

calculate_asset_utilization(assets_df) ==
    IF assets_df = <<>>
    THEN [utilization |-> Zero, active_assets |-> 0, total_assets |-> 0]
    ELSE
      LET total_assets == Len(assets_df)
          active_assets ==
              Len(SelectSeq(assets_df, LAMBDA r : r.OperationalStatus = "Active"))
      IN  [utilization |-> IF total_assets > 0
                           THEN FMul(FDiv(Int2F(active_assets), Int2F(total_assets)),
                                     Int2F(PercentScale))
                           ELSE Zero,
           active_assets |-> active_assets,
           total_assets |-> total_assets]

\* What a call that raises leaves instead of a returned dict.
Raise(exception) == [exception |-> exception]

\* Faulty variant: the cutoff is always 30 days before clock.
calculate_failure_rate_fixed_window(failures_df, days, clock) ==
    IF failures_df = <<>> THEN [failure_rate |-> Zero, total_failures |-> 0]
    ELSE
      LET recent == recent_failures(failures_df, minus_days(clock, WindowDays))
      IN  IF days = 0 THEN Raise("ZeroDivisionError")
          ELSE [failure_rate |-> FDiv(Int2F(Len(recent)), Int2F(days)),
                total_failures |-> Len(recent)]

\* len(recent_failures) / period_days divides two Python ints: a zero divisor
\* raises ZeroDivisionError.
calculate_failure_rate(failures_df, days, clock) ==
    IF failures_df = <<>> THEN [failure_rate |-> Zero, total_failures |-> 0]
    ELSE
      LET cutoff_date == minus_days(clock, days)
          recent == recent_failures(failures_df, cutoff_date)
      IN  IF days = 0 THEN Raise("ZeroDivisionError")
          ELSE [failure_rate |-> FDiv(Int2F(Len(recent)), Int2F(days)),
                total_failures |-> Len(recent)]

-----------------------------------------------------------------------------
(* IEEE binary64 as the interpreter computes count / total_assets * 100: a   *)
(* positive float64 is [m, e] and stands for m * 2^e, where m is a whole     *)
(* number of SignificandBits bits, written as a sequence of digits base      *)
(* LimbBase, most significant first.                                         *)

SignificandBits == 53
LimbBits == 15
LimbBase == 2 ^ LimbBits

Front(s) == SubSeq(s, 1, Len(s) - 1)

Zeros(n) == [i \in 1..n |-> 0]

\* The digits of a natural number, none for 0.
RECURSIVE Limbs(_)
Limbs(n) == IF n = 0 THEN <<>> ELSE Append(Limbs(n \div LimbBase), n % LimbBase)

RECURSIVE DropZeros(_)
DropZeros(a) == IF a # <<>> /\ Head(a) = 0 THEN DropZeros(Tail(a)) ELSE a

RECURSIVE AddLimbs(_, _, _)
AddLimbs(a, b, carry) ==
    IF a = <<>> /\ b = <<>> THEN Limbs(carry)
    ELSE LET x == IF a = <<>> THEN 0 ELSE a[Len(a)]
             y == IF b = <<>> THEN 0 ELSE b[Len(b)]
             t == x + y + carry
         IN  Append(AddLimbs(IF a = <<>> THEN a ELSE Front(a),
                             IF b = <<>> THEN b ELSE Front(b), t \div LimbBase),
                    t % LimbBase)

\* a * factor + carry, for a factor below LimbBase.
RECURSIVE MulLimbs(_, _, _)
MulLimbs(a, factor, carry) ==
    IF a = <<>> THEN Limbs(carry)
    ELSE LET t == a[Len(a)] * factor + carry
         IN  Append(MulLimbs(Front(a), factor, t \div LimbBase), t % LimbBase)

\* a * 2^k.
ShiftLeft(a, k) ==
    DropZeros(MulLimbs(a, 2 ^ (k % LimbBits), 0)) \o Zeros(k \div LimbBits)

RECURSIVE BitLength(_)
BitLength(x) == IF x = 0 THEN 0 ELSE 1 + BitLength(x \div 2)

\* The number of bits of a, whose first digit is not 0.
BitsIn(a) == LimbBits * (Len(a) - 1) + BitLength(a[1])

\* Round to nearest, ties to even: a * 2^e, plus a positive amount below the
\* last bit of a when sticky, as a float64.
Round53(a, e, sticky) ==
    IF BitsIn(a) <= SignificandBits
    THEN [m |-> ShiftLeft(a, SignificandBits - BitsIn(a)),
          e |-> e - (SignificandBits - BitsIn(a))]
    ELSE
      LET s == BitsIn(a) - SignificandBits
          dropped == (s + LimbBits - 1) \div LimbBits
          \* aligned so that the bits to drop fill whole digits
          aligned == ShiftLeft(a, dropped * LimbBits - s)
          keep == SubSeq(aligned, 1, Len(aligned) - dropped)
          tail == SubSeq(aligned, Len(aligned) - dropped + 1, Len(aligned))
          guard == tail[1] >= LimbBase \div 2
          rest == \/ sticky
                  \/ tail[1] % (LimbBase \div 2) # 0
                  \/ \E i \in 2..Len(tail) : tail[i] # 0
          up == guard /\ (rest \/ keep[Len(keep)] % 2 = 1)
          inc == DropZeros(AddLimbs(keep, <<1>>, 0))
      IN  IF ~up THEN [m |-> keep, e |-> e + s]
          ELSE IF BitsIn(inc) > SignificandBits
               THEN [m |-> ShiftLeft(<<1>>, SignificandBits - 1), e |-> e + s + 1]
               ELSE [m |-> inc, e |-> e + s]

\* Long division: digits more of the quotient after acc, and whether a
\* remainder is left.
RECURSIVE DivLimbs(_, _, _, _)
DivLimbs(acc, r, n, digits) ==
    IF digits = 0 THEN [m |-> acc, sticky |-> r # 0]
    ELSE DivLimbs(Append(acc, (r * LimbBase) \div n), (r * LimbBase) % n, n, digits - 1)

\* Enough digits after the point for SignificandBits + 2 significant bits of
\* a quotient of two numbers below LimbBase.
FractionLimbs == 6

F64Zero == [m |-> <<>>, e |-> 0]

F64OfInt(i) == IF i = 0 THEN F64Zero ELSE Round53(Limbs(i), 0, FALSE)

\* count / total for two positive ints below LimbBase.
F64Div(count, total) ==
    LET q == DivLimbs(Limbs(count \div total), count % total, total, FractionLimbs)
    IN  Round53(DropZeros(q.m), -(FractionLimbs * LimbBits), q.sticky)

\* x * factor for a whole factor below LimbBase.
F64Mul(x, factor) == Round53(DropZeros(MulLimbs(x.m, factor, 0)), x.e, FALSE)

F64Add(x, y) ==
    IF x.m = <<>> THEN y
    ELSE IF y.m = <<>> THEN x
    ELSE LET hi == IF x.e >= y.e THEN x ELSE y
             lo == IF x.e >= y.e THEN y ELSE x
         IN  Round53(DropZeros(AddLimbs(ShiftLeft(hi.m, hi.e - lo.e), lo.m, 0)),
                     lo.e, FALSE)

\* x < y for two positive float64.
F64Less(x, y) ==
    \/ x.e < y.e
    \/ /\ x.e = y.e
       /\ \E i \in 1..Len(x.m) :
              /\ x.m[i] < y.m[i]
              /\ \A j \in 1..(i - 1) : x.m[j] = y.m[j]

\* a - b - borrow for a >= b + borrow, digit by digit.
RECURSIVE SubLimbs(_, _, _)
SubLimbs(a, b, borrow) ==
    IF a = <<>> THEN <<>>
    ELSE LET y == IF b = <<>> THEN 0 ELSE b[Len(b)]
             t == a[Len(a)] - y - borrow
         IN  Append(SubLimbs(Front(a), IF b = <<>> THEN b ELSE Front(b),
                             IF t < 0 THEN 1 ELSE 0),
                    IF t < 0 THEN t + LimbBase ELSE t)

\* x - y for two float64 with x >= y >= 0.
F64Sub(x, y) ==
    IF y.m = <<>> THEN x
    ELSE LET d == DropZeros(SubLimbs(ShiftLeft(x.m, x.e - y.e), y.m, 0))
         IN  IF d = <<>> THEN F64Zero ELSE Round53(d, y.e, FALSE)

-----------------------------------------------------------------------------
(* calculate_criticality_distribution. *)

\* value_counts(): how many rows hold each CriticalityLevel that occurs.
value_counts(assets_df) ==
    [level \in {assets_df[i].CriticalityLevel : i \in 1..Len(assets_df)} |->
        Len(SelectSeq(assets_df, LAMBDA r : r.CriticalityLevel = level))]

\* Faulty variant: the share of each level is taken of its own count.
calculate_criticality_distribution_unscaled(assets_df) ==
    IF assets_df = <<>> THEN <<>>
    ELSE LET criticality_counts == value_counts(assets_df)
         IN  [level \in DOMAIN criticality_counts |-> Int2F(PercentScale)]

\* The returned dict, {} for no asset, in exact arithmetic.
calculate_criticality_distribution(assets_df) ==
    IF assets_df = <<>> THEN <<>>
    ELSE LET criticality_counts == value_counts(assets_df)
             total_assets == Len(assets_df)
         IN  [level \in DOMAIN criticality_counts |->
                 FMul(FDiv(Int2F(criticality_counts[level]), Int2F(total_assets)),
                      Int2F(PercentScale))]

\* The same dict with the float64 values that (count / total_assets) * 100
\* evaluates to.
criticality_percentages_float64(assets_df) ==
    IF assets_df = <<>> THEN <<>>
    ELSE LET criticality_counts == value_counts(assets_df)
             total_assets == Len(assets_df)
         IN  [level \in DOMAIN criticality_counts |->
                 F64Mul(F64Div(criticality_counts[level], total_assets),
                        PercentScale)]

-----------------------------------------------------------------------------
(* calculate_all_kpis.  The five functions that call datetime.now() do so    *)
(* one after the other: reads maps each of them to the instant it gets.      *)

\* self.calculation_period_days, set by __init__ and read nowhere.
calculation_period_days == 90

AllKpis(mtbf_data, mttr_data, oee_data, cost_data, utilization_data, failure_rate_data, criticality_data) ==
    IF "exception" \in DOMAIN failure_rate_data THEN failure_rate_data
    ELSE [mtbf |-> mtbf_data.mtbf,
          mtbf_change |-> mtbf_data.mtbf_change,
          mttr |-> mttr_data.mttr,
          mttr_change |-> mttr_data.mttr_change,
          oee |-> oee_data.oee,
          oee_change |-> oee_data.oee_change,
          total_cost |-> cost_data.total_cost,
          cost_change |-> cost_data.cost_change,
          utilization |-> utilization_data.utilization,
          active_assets |-> utilization_data.active_assets,
          total_assets |-> utilization_data.total_assets,
          failure_rate |-> failure_rate_data.failure_rate,
          total_failures |-> failure_rate_data.total_failures,
          criticality_distribution |-> criticality_data]

\* Faulty variant: the failure rate is taken over calculation_period_days.
calculate_all_kpis_configured_period(data, columns, reads, random_uniform) ==
    LET assets_df == data.assets
        failures_df == data.failures
        maintenance_costs_df == data.maintenance_costs
    IN  AllKpis(calculate_mtbf(failures_df, assets_df, reads.calculate_mtbf),
                calculate_mttr(failures_df, columns, reads.calculate_mttr),
                calculate_oee(assets_df, failures_df, reads.calculate_oee, random_uniform),
                calculate_total_maintenance_cost(maintenance_costs_df,
                    reads.calculate_total_maintenance_cost),
                calculate_asset_utilization(assets_df),
                calculate_failure_rate(failures_df, calculation_period_days,
                    reads.calculate_failure_rate),
                calculate_criticality_distribution(assets_df))

calculate_all_kpis(data, columns, reads, random_uniform) ==
    LET assets_df == data.assets
        failures_df == data.failures
        maintenance_costs_df == data.maintenance_costs
    IN  AllKpis(calculate_mtbf(failures_df, assets_df, reads.calculate_mtbf),
                calculate_mttr(failures_df, columns, reads.calculate_mttr),
                calculate_oee(assets_df, failures_df, reads.calculate_oee, random_uniform),
                calculate_total_maintenance_cost(maintenance_costs_df,
                    reads.calculate_total_maintenance_cost),
                calculate_asset_utilization(assets_df),
                calculate_failure_rate(failures_df, DefaultPeriodDays,
                    reads.calculate_failure_rate),
                calculate_criticality_distribution(assets_df))

-----------------------------------------------------------------------------
(* apply_filters (src/app.py).  A date is a whole number of days on the hour *)
(* axis; an absent datetime is NaT.                                          *)

NaT == -1

\* pd.Timestamp(date): midnight of that date.
Timestamp(date) == date * HoursPerDay

\* Faulty variant: every AssetID passes.
isin_any(value, values) == TRUE

\* Series.isin(values), for one element.
isin(value, values) == value \in values

\* Faulty variant: an absent datetime passes the date filter.
within_or_missing(x, date_range) ==
    \/ x = NaT
    \/ x >= Timestamp(date_range[1]) /\ x <= Timestamp(date_range[2])

\* (x >= pd.Timestamp(date_range[0])) & (x <= pd.Timestamp(date_range[1])):
\* both comparisons are False for NaT.
within(x, date_range) ==
    /\ x # NaT
    /\ x >= Timestamp(date_range[1])
    /\ x <= Timestamp(date_range[2])

\* The filtered view that apply_filters builds from data.
filtered_view(data, asset_type, location, criticality, date_range) ==
    LET assets_filter(a) ==
            /\ asset_type # "All" => a.AssetType = asset_type
            /\ location # "All" => a.Location = location
            /\ criticality # "All" => a.CriticalityLevel = criticality
        filtered_assets == SelectSeq(data.assets, assets_filter)
        asset_ids == {filtered_assets[i].AssetID : i \in 1..Len(filtered_assets)}
    IN  [assets |-> filtered_assets,
         work_orders |->
             SelectSeq(data.work_orders,
                       LAMBDA r : /\ isin(r.AssetID, asset_ids)
                                  /\ within(r.CompletionDate, date_range)),
         failures |->
             SelectSeq(data.failures,
                       LAMBDA r : /\ isin(r.AssetID, asset_ids)
                                  /\ within(r.FailureDate, date_range)),
         maintenance_costs |->
             SelectSeq(data.maintenance_costs,
                       LAMBDA r : /\ isin(r.AssetID, asset_ids)
                                  /\ within(r.Date, date_range))]

\* Faulty variant: filtered_data is data itself, not a copy of it.
apply_filters_in_place(data, asset_type, location, criticality, date_range) ==
    LET filtered_data == filtered_view(data, asset_type, location, criticality, date_range)
    IN  [data |-> filtered_data, filtered_data |-> filtered_data]

\* filtered_data = data.copy() is a new dict, so assigning its keys leaves
\* data as it was: data is what the caller's dict holds after the call,
\* filtered_data what is returned.
apply_filters(data, asset_type, location, criticality, date_range) ==
    [data |-> data,
     filtered_data |-> filtered_view(data, asset_type, location, criticality, date_range)]

-----------------------------------------------------------------------------
(* create_schedule_compliance_chart (src/visualizations.py).  A figure is    *)
(* either an annotation or the two values of the pie.                        *)

\* OnTime.mean() * 100 for on_time True values among total.
mean_percent(on_time, total) ==
    IF on_time = 0 THEN F64Zero ELSE F64Mul(F64Div(on_time, total), PercentScale)

\* The pie of the rows taken as completed.
compliance_pie(completed_orders) ==
    LET OnTime(r) == r.CompletionDate # NaT /\ r.CompletionDate <= r.ScheduledDate
        compliance_rate == mean_percent(Len(SelectSeq(completed_orders, OnTime)),
                                        Len(completed_orders))
    IN  [labels |-> <<"On Time", "Late">>,
         values |-> <<compliance_rate, F64Sub(F64OfInt(PercentScale), compliance_rate)>>]

\* Faulty variant: the share is taken over the work orders of every status.
create_schedule_compliance_chart_any_status(work_orders_df) ==
    IF work_orders_df = <<>> THEN [annotation |-> "No work order data available"]
    ELSE compliance_pie(work_orders_df)

create_schedule_compliance_chart(work_orders_df) ==
    IF work_orders_df = <<>> THEN [annotation |-> "No work order data available"]
    ELSE LET completed_orders == SelectSeq(work_orders_df, LAMBDA r : r.Status = "Completed")
         IN  IF completed_orders = <<>>
             THEN [annotation |-> "No completed work orders"]
             ELSE compliance_pie(completed_orders)

-----------------------------------------------------------------------------
(* validate_data (src/utils.py).  data is the four frames; columns gives,    *)
(* for each table that data holds, the columns of its frame.                 *)

required_columns ==
    [assets |-> <<"AssetID", "AssetName", "AssetType", "CriticalityLevel">>,
     failures |-> <<"FailureID", "AssetID", "FailureDate", "FailureMode">>,
     work_orders |-> <<"WorkOrderID", "AssetID", "MaintenanceType", "Status">>,
     maintenance_costs |-> <<"CostID", "AssetID", "Date", "Amount">>]

\* The keys of required_columns, in the order of its items().
required_tables == <<"assets", "failures", "work_orders", "maintenance_costs">>

\* [col for col in columns if col not in df.columns]
missing_columns(table, columns) ==
    SelectSeq(required_columns[table], LAMBDA col : col \notin columns[table])

\* The errors list after the loop over required_columns.
column_errors(columns) ==
    LET checked == SelectSeq(required_tables,
                             LAMBDA table : /\ table \in DOMAIN columns
                                            /\ missing_columns(table, columns) # <<>>)
    IN  [i \in 1..Len(checked) |->
            [table |-> checked[i],
             missing_columns |-> missing_columns(checked[i], columns)]]

\* failure_asset_ids - asset_ids
orphaned_failures(data) ==
    {data.failures[i].AssetID : i \in 1..Len(data.failures)}
        \ {data.assets[i].AssetID : i \in 1..Len(data.assets)}

\* Faulty variant: an orphaned reference is an error.
validate_data_strict(data, columns) ==
    LET errors == column_errors(columns)
    IN  IF ~({"assets", "failures"} \subseteq DOMAIN columns)
        THEN [valid |-> errors = <<>>, errors |-> errors, warnings |-> <<>>]
        ELSE IF "AssetID" \notin columns.assets \/ "AssetID" \notin columns.failures
        THEN Raise("KeyError")
        ELSE IF orphaned_failures(data) = {}
        THEN [valid |-> errors = <<>>, errors |-> errors, warnings |-> <<>>]
        ELSE [valid |-> FALSE,
              errors |-> Append(errors, [orphaned |-> Cardinality(orphaned_failures(data))]),
              warnings |-> <<>>]

\* valid is set to False exactly where an error is appended; reading the
\* AssetID column of a frame that has none raises KeyError.
validate_data(data, columns) ==
    LET errors == column_errors(columns)
    IN  IF ~({"assets", "failures"} \subseteq DOMAIN columns)
        THEN [valid |-> errors = <<>>, errors |-> errors, warnings |-> <<>>]
        ELSE IF "AssetID" \notin columns.assets \/ "AssetID" \notin columns.failures
        THEN Raise("KeyError")
        ELSE [valid |-> errors = <<>>,
              errors |-> errors,
              warnings |-> IF orphaned_failures(data) = {} THEN <<>>
                           ELSE <<[orphaned |-> Cardinality(orphaned_failures(data))]>>]

-----------------------------------------------------------------------------
(* generate_work_orders (src/data_generator.py): one pass of its loop.       *)

\* f"WO-{str(i + 1).zfill(6)}" for i + 1 = number.
WorkOrderID(number) ==
    "WO-" \o <<"000001", "000002", "000003", "000004", "000005", "000006">>[number]

\* Faulty variant: the work starts and ends at the scheduled instant.
generate_work_order_prompt(number, asset_id, days, clock, grace_days, later_clock, start_hours, actual_duration, open_status) ==
    LET scheduled_date == minus_days(clock, days)
        is_completed == scheduled_date < minus_days(later_clock, grace_days)
    IN  IF is_completed
        THEN [WorkOrderID |-> WorkOrderID(number), AssetID |-> asset_id,
              Status |-> "Completed", ScheduledDate |-> scheduled_date,
              StartDate |-> scheduled_date, CompletionDate |-> scheduled_date,
              ActualDuration |-> Int2F(actual_duration)]
        ELSE [WorkOrderID |-> WorkOrderID(number), AssetID |-> asset_id,
              Status |-> open_status, ScheduledDate |-> scheduled_date,
              StartDate |-> NaT, CompletionDate |-> NaT, ActualDuration |-> NaN]

\* The work order of pass number (i + 1), from what the pass draws: the
\* asset, the two randint day counts, the clock at its two reads, and, as it
\* turns out, the hours to the start and the duration or the status.
generate_work_order(number, asset_id, days, clock, grace_days, later_clock, start_hours, actual_duration, open_status) ==
    LET scheduled_date == minus_days(clock, days)
        is_completed == scheduled_date < minus_days(later_clock, grace_days)
        start_date == scheduled_date + start_hours
    IN  IF is_completed
        THEN [WorkOrderID |-> WorkOrderID(number), AssetID |-> asset_id,
              Status |-> "Completed", ScheduledDate |-> scheduled_date,
              StartDate |-> start_date,
              CompletionDate |-> start_date + actual_duration,
              ActualDuration |-> Int2F(actual_duration)]
        ELSE [WorkOrderID |-> WorkOrderID(number), AssetID |-> asset_id,
              Status |-> open_status, ScheduledDate |-> scheduled_date,
              StartDate |-> NaT, CompletionDate |-> NaT, ActualDuration |-> NaN]

-----------------------------------------------------------------------------
(* Inputs. *)

BoundedSeq(S, n) == UNION {[1..k -> S] : k \in 0..n}

AssetIDs == {"AST-0001", "AST-0002", "AST-0003"}
Statuses == {"Active", "Inactive", "Maintenance"}
AssetRows == [AssetID : AssetIDs, OperationalStatus : Statuses]

\* Asset sets of at most n rows: AssetID is a unique key, and the rows are in
\* the order generate_assets numbers them ("AST-0001" first).
AssetRank(a) == CHOOSE i \in 1..3 : <<"AST-0001", "AST-0002", "AST-0003">>[i] = a

AssetSets(n) ==
    {df \in BoundedSeq(AssetRows, n) :
        \A i, j \in 1..Len(df) :
            i < j => AssetRank(df[i].AssetID) < AssetRank(df[j].AssetID)}
\* One Active asset per AssetID.
Fleet ==
    << [AssetID |-> "AST-0001", OperationalStatus |-> "Active"],
       [AssetID |-> "AST-0002", OperationalStatus |-> "Active"],
       [AssetID |-> "AST-0003", OperationalStatus |-> "Active"] >>

FailureColumns == {"AssetID", "FailureDate", "DowntimeHours"}

\* Reference times of the failure KPIs: an afternoon and a midnight.
FailureNows == {Instant(4, 15, 14), Instant(3, 31, 0)}

\* Failure dates around the edges of the two 30-day windows of clock.
EdgeDates(clock) ==
    { minus_days(clock, 2 * WindowDays) - 1, minus_days(clock, 2 * WindowDays),
      minus_days(clock, WindowDays) - 1, minus_days(clock, WindowDays) }

\* The sidebar has not been read.
NoSelection == <<>>

\* The columns of the tables that generate_all_data returns, as far as the
\* functions read them.
GeneratedColumns ==
    [assets |-> {"AssetID", "AssetName", "AssetType", "Location", "CriticalityLevel",
                 "OperationalStatus"},
     failures |-> {"FailureID", "AssetID", "FailureDate", "FailureMode",
                   "DowntimeHours"},
     work_orders |-> {"WorkOrderID", "AssetID", "MaintenanceType", "Status",
                      "ScheduledDate", "StartDate", "CompletionDate",
                      "ActualDuration"},
     maintenance_costs |-> {"CostID", "AssetID", "Date", "Amount"}]

\* No function has been called.
NoCall == <<>>

Returned(fn) == fn \in DOMAIN ret

Return(fn, val) == ret' = (fn :> val) @@ ret

-----------------------------------------------------------------------------
(* calculate_mtbf on every failure set of at most MaxFailures rows. *)

MtbfRows(clock) ==
    [AssetID : AssetIDs, FailureDate : EdgeDates(clock), DowntimeHours : {8}]

InitMTBF ==
    /\ now \in FailureNows
    /\ failures \in BoundedSeq(MtbfRows(now), MaxFailures)
    /\ failure_columns = FailureColumns
    /\ assets = Fleet
    /\ maintenance_costs = <<>>
    /\ work_orders = <<>>
    /\ period_days = DefaultPeriodDays
    /\ ret = NoCall
    /\ before = NoCall
    /\ clock_reads = NoCall
    /\ selection = NoSelection
    /\ table_columns = GeneratedColumns

CalculateMTBF ==
    /\ ~Returned("calculate_mtbf")
    /\ Return("calculate_mtbf", calculate_mtbf(failures, assets, now))
    /\ UNCHANGED <<inputs, now, before, clock_reads>>

NextMTBF == CalculateMTBF

SpecMTBF == InitMTBF /\ [][NextMTBF]_vars

-----------------------------------------------------------------------------
(* calculate_mttr on every failure set of at most MaxFailures rows, with and *)
(* without the DowntimeHours column.                                        *)

MttrRows(clock, columns) ==
    [AssetID : {"AST-0001"}, FailureDate : EdgeDates(clock),
     DowntimeHours : IF "DowntimeHours" \in columns THEN {0, 2, 6} ELSE {0}]

InitMTTR ==
    /\ now \in FailureNows
    /\ failure_columns \in {FailureColumns, FailureColumns \ {"DowntimeHours"}}
    /\ failures \in BoundedSeq(MttrRows(now, failure_columns), MaxFailures)
    /\ assets = Fleet
    /\ maintenance_costs = <<>>
    /\ work_orders = <<>>
    /\ period_days = DefaultPeriodDays
    /\ ret = NoCall
    /\ before = NoCall
    /\ clock_reads = NoCall
    /\ selection = NoSelection
    /\ table_columns = GeneratedColumns

CalculateMTTR ==
    /\ ~Returned("calculate_mttr")
    /\ Return("calculate_mttr", calculate_mttr(failures, failure_columns, now))
    /\ UNCHANGED <<inputs, now, before, clock_reads>>

NextMTTR == CalculateMTTR

SpecMTTR == InitMTTR /\ [][NextMTTR]_vars

-----------------------------------------------------------------------------
(* Both failure KPIs on failure sets of at most one row, over every asset   *)
(* set of at most MaxAssets rows.                                           *)

InitFailureKPIs ==
    /\ now \in FailureNows
    /\ failure_columns \in {FailureColumns, FailureColumns \ {"DowntimeHours"}}
    /\ failures \in BoundedSeq([AssetID : AssetIDs, FailureDate : EdgeDates(now),
                                DowntimeHours : {6}], 1)
    /\ assets \in AssetSets(MaxAssets)
    /\ maintenance_costs = <<>>
    /\ work_orders = <<>>
    /\ period_days = DefaultPeriodDays
    /\ ret = NoCall
    /\ before = NoCall
    /\ clock_reads = NoCall
    /\ selection = NoSelection
    /\ table_columns = GeneratedColumns

NextFailureKPIs == CalculateMTBF \/ CalculateMTTR

SpecFailureKPIs == InitFailureKPIs /\ [][NextFailureKPIs]_vars

-----------------------------------------------------------------------------
(* calculate_oee on every asset set of at most MaxAssets rows and failure   *)
(* set of at most MaxFailures rows.                                         *)

\* Downtime of one failure: none, half of one asset's 30 days, more than them.
OeeRows(clock) ==
    [AssetID : {"AST-0001"},
     FailureDate : {minus_days(clock, WindowDays) - 1, minus_days(clock, WindowDays)},
     DowntimeHours : {0, 360, 800}]

\* Values np.random.uniform(-5, 5) can draw.
UniformSamples == {Int2F(-5), Fin(9, 2)}

InitOEE ==
    /\ now = Instant(4, 15, 14)
    /\ failure_columns = FailureColumns
    /\ failures \in BoundedSeq(OeeRows(now), MaxFailures)
    /\ assets \in AssetSets(MaxAssets)
    /\ maintenance_costs = <<>>
    /\ work_orders = <<>>
    /\ period_days = DefaultPeriodDays
    /\ ret = NoCall
    /\ before = NoCall
    /\ clock_reads = NoCall
    /\ selection = NoSelection
    /\ table_columns = GeneratedColumns

CalculateOEE ==
    /\ ~Returned("calculate_oee")
    /\ \E u \in UniformSamples :
           Return("calculate_oee", calculate_oee(assets, failures, now, u))
    /\ UNCHANGED <<inputs, now, before, clock_reads>>

NextOEE == CalculateOEE

SpecOEE == InitOEE /\ [][NextOEE]_vars

-----------------------------------------------------------------------------
(* calculate_total_maintenance_cost on every cost set of at most MaxCosts   *)
(* rows, at reference times on the first, a middle and the last day of a    *)
(* month.                                                                   *)

CostNows ==
    {Instant(3, 1, 0), Instant(3, 1, 14), Instant(3, 15, 14), Instant(3, 31, 9),
     Instant(4, 30, 0)}

\* Cost dates around the first days of the month of clock and of the month before.
CostDates(clock) ==
    LET m == MonthOf(clock)
    IN  {Instant(m - 1, 1, 0) - 1, Instant(m - 1, 1, 0), Instant(m - 1, 1, 9),
         Instant(m, 1, 0) - 1, Instant(m, 1, 0), Instant(m, 1, 9), Instant(m, 15, 0)}

CostRows(clock) ==
    [AssetID : {"AST-0001"}, Date : CostDates(clock), Amount : {0, 100, 500}]

InitCost ==
    /\ now \in CostNows
    /\ maintenance_costs \in BoundedSeq(CostRows(now), MaxCosts)
    /\ failure_columns = FailureColumns
    /\ failures = <<>>
    /\ assets = Fleet
    /\ work_orders = <<>>
    /\ period_days = DefaultPeriodDays
    /\ ret = NoCall
    /\ before = NoCall
    /\ clock_reads = NoCall
    /\ selection = NoSelection
    /\ table_columns = GeneratedColumns

CalculateTotalMaintenanceCost ==
    /\ ~Returned("calculate_total_maintenance_cost")
    /\ Return("calculate_total_maintenance_cost",
              calculate_total_maintenance_cost(maintenance_costs, now))
    /\ UNCHANGED <<inputs, now, before, clock_reads>>

NextCost == CalculateTotalMaintenanceCost

SpecCost == InitCost /\ [][NextCost]_vars

-----------------------------------------------------------------------------
(* The asset KPIs on every asset set of at most MaxFleet rows.              *)

CriticalityLevels == {"Critical", "High", "Medium", "Low"}

\* generate_assets numbers the assets in order.
AssetNumbering == <<"AST-0001", "AST-0002", "AST-0003", "AST-0004", "AST-0005">>

FleetSets(n) ==
    {[i \in 1..Len(f) |-> [AssetID |-> AssetNumbering[i],
                           OperationalStatus |-> f[i][1],
                           CriticalityLevel |-> f[i][2]]] :
        f \in BoundedSeq(Statuses \X CriticalityLevels, n)}

InitAssets ==
    /\ now = Instant(4, 15, 14)
    /\ assets \in FleetSets(MaxFleet)
    /\ failure_columns = FailureColumns
    /\ failures = <<>>
    /\ maintenance_costs = <<>>
    /\ work_orders = <<>>
    /\ period_days = DefaultPeriodDays
    /\ ret = NoCall
    /\ before = NoCall
    /\ clock_reads = NoCall
    /\ selection = NoSelection
    /\ table_columns = GeneratedColumns

CalculateAssetUtilization ==
    /\ ~Returned("calculate_asset_utilization")
    /\ Return("calculate_asset_utilization", calculate_asset_utilization(assets))
    /\ UNCHANGED <<inputs, now, before, clock_reads>>

CalculateCriticalityDistribution ==
    /\ ~Returned("calculate_criticality_distribution")
    /\ Return("calculate_criticality_distribution",
              calculate_criticality_distribution(assets))
    /\ UNCHANGED <<inputs, now, before, clock_reads>>

NextAssets == CalculateAssetUtilization \/ CalculateCriticalityDistribution

SpecAssets == InitAssets /\ [][NextAssets]_vars

-----------------------------------------------------------------------------
(* calculate_failure_rate on every failure set of at most MaxFailures rows, *)
(* for several values of period_days.                                       *)

PeriodChoices == {-30, 0, 1, 30, 60}

\* Failure dates around the cutoffs of 1, 30 and 60 days.
RateDates(clock) ==
    { minus_days(clock, 60) - 1, minus_days(clock, 60),
      minus_days(clock, 30) - 1, minus_days(clock, 30),
      minus_days(clock, 1) - 1, minus_days(clock, 1) }

InitFailureRate ==
    /\ now = Instant(4, 15, 14)
    /\ period_days \in PeriodChoices
    /\ failures \in BoundedSeq([AssetID : {"AST-0001"}, FailureDate : RateDates(now),
                                DowntimeHours : {8}], MaxFailures)
    /\ failure_columns = FailureColumns
    /\ assets = Fleet
    /\ maintenance_costs = <<>>
    /\ work_orders = <<>>
    /\ ret = NoCall
    /\ before = NoCall
    /\ clock_reads = NoCall
    /\ selection = NoSelection
    /\ table_columns = GeneratedColumns

CalculateFailureRate ==
    /\ ~Returned("calculate_failure_rate")
    /\ Return("calculate_failure_rate", calculate_failure_rate(failures, period_days, now))
    /\ UNCHANGED <<inputs, now, before, clock_reads>>

NextFailureRate == CalculateFailureRate

SpecFailureRate == InitFailureRate /\ [][NextFailureRate]_vars

-----------------------------------------------------------------------------
(* calculate_all_kpis on failure sets of at most MaxKpiFailures rows, some   *)
(* of an AssetID that no asset has, and a clock that can advance by an hour  *)
(* between two of its readings.                                              *)

MaxKpiFailures == 2

\* The dict that app.py passes as data.
Data ==
    [assets |-> assets, failures |-> failures, work_orders |-> work_orders,
     maintenance_costs |-> maintenance_costs]

\* The functions that call datetime.now(), in the order calculate_all_kpis
\* calls them.
ClockReaders ==
    << "calculate_mtbf", "calculate_mttr", "calculate_oee",
       "calculate_total_maintenance_cost", "calculate_failure_rate" >>

\* The first k functions read clock, the others an hour later.
ClockReads(clock) ==
    {[fn \in {ClockReaders[i] : i \in 1..Len(ClockReaders)} |->
         IF (CHOOSE i \in 1..Len(ClockReaders) : ClockReaders[i] = fn) <= k
         THEN clock ELSE clock + 1] : k \in 0..Len(ClockReaders)}

\* No asset, one Active asset, and an Active and an Inactive one.
KpiFleets ==
    { <<>>,
      << [AssetID |-> "AST-0001", OperationalStatus |-> "Active",
          CriticalityLevel |-> "Critical"] >>,
      << [AssetID |-> "AST-0001", OperationalStatus |-> "Active",
          CriticalityLevel |-> "Critical"],
         [AssetID |-> "AST-0002", OperationalStatus |-> "Inactive",
          CriticalityLevel |-> "Low"] >> }

\* AST-0404 is the AssetID of no asset.
KpiFailureRows(clock) ==
    [AssetID : {"AST-0001", "AST-0404"},
     FailureDate : {minus_days(clock, 31), minus_days(clock, 30), minus_days(clock, 1)},
     DowntimeHours : {8}]

KpiCosts ==
    { <<>>,
      << [Date |-> Instant(4, 2, 9), Amount |-> 300] >>,
      << [Date |-> Instant(3, 20, 9), Amount |-> 200],
         [Date |-> Instant(4, 2, 9), Amount |-> 300] >> }

KpiWorkOrders ==
    { <<>>,
      << [WorkOrderID |-> "WO-000001", AssetID |-> "AST-0001", Status |-> "Scheduled",
          ScheduledDate |-> Instant(4, 20, 9)] >> }

InitAll ==
    /\ now = Instant(4, 15, 14)
    /\ assets \in KpiFleets
    /\ failures \in BoundedSeq(KpiFailureRows(now), MaxKpiFailures)
    /\ failure_columns = FailureColumns
    /\ maintenance_costs \in KpiCosts
    /\ work_orders \in KpiWorkOrders
    /\ period_days = DefaultPeriodDays
    /\ ret = NoCall
    /\ before = NoCall
    /\ clock_reads = NoCall
    /\ selection = NoSelection
    /\ table_columns = GeneratedColumns

CalculateAllKPIs ==
    /\ ~Returned("calculate_all_kpis")
    /\ \E reads \in ClockReads(now), random_uniform \in UniformSamples :
           /\ clock_reads' = ("calculate_all_kpis" :> reads) @@ clock_reads
           /\ Return("calculate_all_kpis",
                     calculate_all_kpis(Data, failure_columns, reads, random_uniform))
    /\ UNCHANGED <<inputs, now, before>>

NextAll == CalculateAllKPIs

SpecAll == InitAll /\ [][NextAll]_vars

-----------------------------------------------------------------------------
(* The dashboard calls the KPI functions again on every rerun: at most       *)
(* MaxCalls calls, no function more than twice, on unchanged inputs.  ret    *)
(* holds what the latest call of a function returned, before what its        *)
(* earlier call returned and read from the clock.                            *)

MaxCalls == 3

KpiFunctions ==
    { "calculate_mtbf", "calculate_mttr", "calculate_oee",
      "calculate_total_maintenance_cost", "calculate_asset_utilization",
      "calculate_failure_rate", "calculate_criticality_distribution",
      "calculate_all_kpis" }

\* What a call of fn can return, with what it reads from the clock.
Outcomes(fn) ==
    IF fn = "calculate_all_kpis"
    THEN {[returned |-> calculate_all_kpis(Data, failure_columns, reads, random_uniform),
           clock |-> reads] :
              reads \in ClockReads(now), random_uniform \in UniformSamples}
    ELSE IF fn = "calculate_oee"
    THEN {[returned |-> calculate_oee(assets, failures, now, random_uniform),
           clock |-> now] : random_uniform \in UniformSamples}
    ELSE {[returned |->
               CASE fn = "calculate_mtbf" -> calculate_mtbf(failures, assets, now)
                 [] fn = "calculate_mttr" -> calculate_mttr(failures, failure_columns, now)
                 [] fn = "calculate_total_maintenance_cost" ->
                        calculate_total_maintenance_cost(maintenance_costs, now)
                 [] fn = "calculate_asset_utilization" ->
                        calculate_asset_utilization(assets)
                 [] fn = "calculate_failure_rate" ->
                        calculate_failure_rate(failures, period_days, now)
                 [] fn = "calculate_criticality_distribution" ->
                        calculate_criticality_distribution(assets),
           clock |-> now]}

InitRepeat ==
    /\ now = Instant(4, 15, 14)
    /\ assets \in KpiFleets
    /\ failures \in
           { <<>>,
             << [AssetID |-> "AST-0001", FailureDate |-> minus_days(now, 31),
                 DowntimeHours |-> 8],
                [AssetID |-> "AST-0001", FailureDate |-> minus_days(now, 30),
                 DowntimeHours |-> 8] >> }
    /\ failure_columns = FailureColumns
    /\ maintenance_costs \in KpiCosts
    /\ work_orders = <<>>
    /\ period_days = DefaultPeriodDays
    /\ ret = NoCall
    /\ before = NoCall
    /\ clock_reads = NoCall
    /\ selection = NoSelection
    /\ table_columns = GeneratedColumns

Call(fn) ==
    /\ Cardinality(DOMAIN ret) + Cardinality(DOMAIN before) < MaxCalls
    /\ fn \notin DOMAIN before
    /\ \E o \in Outcomes(fn) :
           /\ Return(fn, o.returned)
           /\ clock_reads' = (fn :> o.clock) @@ clock_reads
    /\ before' = IF Returned(fn)
                 THEN (fn :> [returned |-> ret[fn], clock |-> clock_reads[fn]]) @@ before
                 ELSE before
    /\ UNCHANGED <<inputs, now>>

NextRepeat == \E fn \in KpiFunctions : Call(fn)

SpecRepeat == InitRepeat /\ [][NextRepeat]_vars

-----------------------------------------------------------------------------
(* The functions of failures and assets on failure sets of at most           *)
(* MaxKpiFailures rows, some of an AssetID that no asset has.                *)

InitOrphans ==
    /\ now = Instant(4, 15, 14)
    /\ assets \in KpiFleets
    /\ failures \in BoundedSeq(KpiFailureRows(now), MaxKpiFailures)
    /\ failure_columns = FailureColumns
    /\ maintenance_costs = <<>>
    /\ work_orders = <<>>
    /\ period_days \in PeriodChoices
    /\ ret = NoCall
    /\ before = NoCall
    /\ clock_reads = NoCall
    /\ selection = NoSelection
    /\ table_columns = GeneratedColumns

NextOrphans ==
    \/ CalculateMTBF
    \/ CalculateFailureRate
    \/ CalculateAssetUtilization
    \/ CalculateCriticalityDistribution

SpecOrphans == InitOrphans /\ [][NextOrphans]_vars

-----------------------------------------------------------------------------
(* calculate_mtbf and calculate_mttr on the same failure sets of at most     *)
(* MaxFailures rows, dated around the edges of the two windows.              *)

InitWindows ==
    /\ now \in FailureNows
    /\ failures \in BoundedSeq([AssetID : {"AST-0001"}, FailureDate : EdgeDates(now),
                                DowntimeHours : {0, 6}], MaxFailures)
    /\ failure_columns = FailureColumns
    /\ assets = Fleet
    /\ maintenance_costs = <<>>
    /\ work_orders = <<>>
    /\ period_days = DefaultPeriodDays
    /\ ret = NoCall
    /\ before = NoCall
    /\ clock_reads = NoCall
    /\ selection = NoSelection
    /\ table_columns = GeneratedColumns

NextWindows == CalculateMTBF \/ CalculateMTTR

SpecWindows == InitWindows /\ [][NextWindows]_vars

-----------------------------------------------------------------------------
(* apply_filters on asset sets of at most MaxAssets rows, for every choice   *)
(* of the sidebar, followed by calculate_all_kpis on the filtered view.      *)

\* The day of the month DaysBefore(m) + day, as a date.
Date(m, day) == DaysBefore(m) + day - 1

FilterFleets(n) ==
    {[i \in 1..Len(f) |-> [AssetID |-> AssetNumbering[i],
                           AssetType |-> f[i][1],
                           Location |-> f[i][2],
                           CriticalityLevel |-> f[i][3],
                           OperationalStatus |-> "Active"]] :
        f \in BoundedSeq({<<"Pump", "Plant A", "Critical">>,
                          <<"Motor", "Plant B", "Low">>}, n)}

Selections ==
    [asset_type : {"All", "Pump", "Motor"},
     location : {"All", "Plant A", "Plant B"},
     criticality : {"All", "Critical", "Low"},
     date_range : {<<Date(3, 10), Date(4, 10)>>, <<Date(4, 10), Date(4, 10)>>}]

\* Dates before, at the first midnight of, at the last midnight of, and
\* during the last day of the longer date range.
FilterDates == <<Instant(3, 9, 23), Instant(3, 10, 0), Instant(4, 10, 0), Instant(4, 10, 12)>>

\* One failure per AssetID and date; AST-0404 is the AssetID of no asset.
FilterFailures ==
    LET ids == <<"AST-0001", "AST-0002", "AST-0404">>
    IN  [i \in 1..(Len(ids) * Len(FilterDates)) |->
            [AssetID |-> ids[((i - 1) \div Len(FilterDates)) + 1],
             FailureDate |-> FilterDates[((i - 1) % Len(FilterDates)) + 1],
             DowntimeHours |-> 8]]

\* For each of two assets: a completed order inside the range, one completed
\* after it, a scheduled one and one in progress.
FilterWorkOrders ==
    LET ids == <<"AST-0001", "AST-0002">>
        kinds == << [Status |-> "Completed", ScheduledDate |-> Instant(3, 19, 9),
                     StartDate |-> Instant(3, 19, 9), CompletionDate |-> Instant(3, 20, 9)],
                    [Status |-> "Completed", ScheduledDate |-> Instant(4, 10, 9),
                     StartDate |-> Instant(4, 10, 9), CompletionDate |-> Instant(4, 10, 12)],
                    [Status |-> "Scheduled", ScheduledDate |-> Instant(4, 20, 9),
                     StartDate |-> NaT, CompletionDate |-> NaT],
                    [Status |-> "In Progress", ScheduledDate |-> Instant(4, 9, 9),
                     StartDate |-> NaT, CompletionDate |-> NaT] >>
    IN  [i \in 1..(Len(ids) * Len(kinds)) |->
            [AssetID |-> ids[((i - 1) \div Len(kinds)) + 1]]
                @@ kinds[((i - 1) % Len(kinds)) + 1]]

FilterCosts ==
    << [AssetID |-> "AST-0001", Date |-> Instant(3, 20, 9), Amount |-> 200],
       [AssetID |-> "AST-0001", Date |-> Instant(4, 10, 12), Amount |-> 300],
       [AssetID |-> "AST-0002", Date |-> Instant(4, 2, 9), Amount |-> 500],
       [AssetID |-> "AST-0404", Date |-> Instant(4, 2, 9), Amount |-> 700] >>

InitFilter ==
    /\ now = Instant(4, 15, 14)
    /\ assets \in FilterFleets(MaxAssets)
    /\ selection \in Selections
    /\ failures = FilterFailures
    /\ failure_columns = FailureColumns
    /\ work_orders = FilterWorkOrders
    /\ maintenance_costs = FilterCosts
    /\ period_days = DefaultPeriodDays
    /\ table_columns = GeneratedColumns
    /\ ret = NoCall
    /\ before = NoCall
    /\ clock_reads = NoCall

\* main(): filtered_data = apply_filters(data, ...).
ApplyFilters ==
    /\ ~Returned("apply_filters")
    /\ LET call == apply_filters(Data, selection.asset_type, selection.location,
                                 selection.criticality, selection.date_range)
       IN  /\ Return("apply_filters", call.filtered_data)
           /\ assets' = call.data.assets
           /\ failures' = call.data.failures
           /\ work_orders' = call.data.work_orders
           /\ maintenance_costs' = call.data.maintenance_costs
    /\ UNCHANGED <<failure_columns, period_days, selection, table_columns, now, before,
                   clock_reads>>

\* overview_dashboard(filtered_data): calculate_all_kpis on the view.
OverviewDashboard ==
    /\ Returned("apply_filters")
    /\ ~Returned("calculate_all_kpis")
    /\ \E reads \in ClockReads(now), random_uniform \in UniformSamples :
           /\ clock_reads' = ("calculate_all_kpis" :> reads) @@ clock_reads
           /\ Return("calculate_all_kpis",
                     calculate_all_kpis(ret.apply_filters, failure_columns, reads,
                                        random_uniform))
    /\ UNCHANGED <<inputs, now, before>>

NextFilter == ApplyFilters \/ OverviewDashboard

SpecFilter == InitFilter /\ [][NextFilter]_vars

-----------------------------------------------------------------------------
(* create_schedule_compliance_chart on at most MaxOrders work orders.        *)

MaxOrders == 3

\* Work orders scheduled on one day: completed before, at and after the
\* scheduled instant, completed with no CompletionDate, and not completed,
\* with and without a CompletionDate.
ComplianceOrders ==
    LET scheduled == Instant(4, 10, 9)
    IN  {[Status |-> s, ScheduledDate |-> scheduled, CompletionDate |-> c] :
            s \in {"Completed"}, c \in {scheduled - 2, scheduled, scheduled + 2, NaT}}
        \cup {[Status |-> s, ScheduledDate |-> scheduled, CompletionDate |-> c] :
                s \in {"Scheduled", "In Progress"}, c \in {scheduled - 2, NaT}}

InitCompliance ==
    /\ now = Instant(4, 15, 14)
    /\ work_orders \in BoundedSeq(ComplianceOrders, MaxOrders)
    /\ assets = <<>>
    /\ failures = <<>>
    /\ failure_columns = FailureColumns
    /\ maintenance_costs = <<>>
    /\ period_days = DefaultPeriodDays
    /\ selection = NoSelection
    /\ table_columns = GeneratedColumns
    /\ ret = NoCall
    /\ before = NoCall
    /\ clock_reads = NoCall

\* maintenance_schedule_dashboard: the chart of data['work_orders'].
CreateScheduleComplianceChart ==
    /\ ~Returned("create_schedule_compliance_chart")
    /\ Return("create_schedule_compliance_chart",
              create_schedule_compliance_chart(work_orders))
    /\ UNCHANGED <<inputs, now, before, clock_reads>>

NextCompliance == CreateScheduleComplianceChart

SpecCompliance == InitCompliance /\ [][NextCompliance]_vars

-----------------------------------------------------------------------------
(* validate_data on data that holds any of the four tables, each frame with  *)
(* all its columns or with one column less.                                  *)

\* The column sets one table's frame may have, and NoTable for a table that
\* data does not hold.
NoTable == {}

ColumnChoices(table, dropped) ==
    {NoTable, GeneratedColumns[table]}
        \cup {GeneratedColumns[table] \ {col} : col \in dropped}

\* The columns of the tables that data holds.
TablesOf(choice) ==
    [table \in {t \in DOMAIN choice : choice[t] # NoTable} |-> choice[table]]

ValidatedColumns ==
    {TablesOf(choice) :
        choice \in [assets : ColumnChoices("assets", {"AssetName", "AssetID", "Location"}),
                    failures : ColumnChoices("failures", {"FailureMode", "AssetID"}),
                    work_orders : ColumnChoices("work_orders", {"Status"}),
                    maintenance_costs : ColumnChoices("maintenance_costs", {"Amount"})]}

\* No failure, failures of an asset, of no asset, and of both.
ValidatedFailures ==
    LET of(id) == [AssetID |-> id, FailureDate |-> Instant(4, 1, 9), DowntimeHours |-> 8]
    IN  {<<>>, <<of("AST-0001")>>, <<of("AST-0404")>>,
         <<of("AST-0001"), of("AST-0404"), of("AST-0405")>>}

InitValidate ==
    /\ now = Instant(4, 15, 14)
    /\ assets \in {SubSeq(Fleet, 1, k) : k \in 0..MaxAssets}
    /\ failures \in ValidatedFailures
    /\ table_columns \in ValidatedColumns
    /\ failure_columns = FailureColumns
    /\ work_orders = <<>>
    /\ maintenance_costs = <<>>
    /\ period_days = DefaultPeriodDays
    /\ selection = NoSelection
    /\ ret = NoCall
    /\ before = NoCall
    /\ clock_reads = NoCall

ValidateData ==
    /\ ~Returned("validate_data")
    /\ Return("validate_data", validate_data(Data, table_columns))
    /\ UNCHANGED <<inputs, now, before, clock_reads>>

NextValidate == ValidateData

SpecValidate == InitValidate /\ [][NextValidate]_vars

-----------------------------------------------------------------------------
(* The windowed metrics on failures dated before and after now.              *)

\* An hour and five days after the clock, a day before it, and a day before
\* the current window.
DatesAround(clock) ==
    {clock + 1, clock + 5 * HoursPerDay, minus_days(clock, 1), minus_days(clock, WindowDays + 1)}

InitFuture ==
    /\ now = Instant(4, 15, 14)
    /\ failures \in BoundedSeq([AssetID : {"AST-0001"}, FailureDate : DatesAround(now),
                                DowntimeHours : {4, 12}], MaxFailures)
    /\ failure_columns = FailureColumns
    /\ assets = Fleet
    /\ maintenance_costs = <<>>
    /\ work_orders = <<>>
    /\ period_days = DefaultPeriodDays
    /\ selection = NoSelection
    /\ table_columns = GeneratedColumns
    /\ ret = NoCall
    /\ before = NoCall
    /\ clock_reads = NoCall

NextFuture == CalculateMTBF \/ CalculateMTTR \/ CalculateOEE \/ CalculateFailureRate

SpecFuture == InitFuture /\ [][NextFuture]_vars

-----------------------------------------------------------------------------
(* generate_work_orders for a count of at most MaxOrders, then the           *)
(* compliance chart of what it produced.                                     *)

\* Values of randint(-90, 365), randint(0, 30), randint(0, 48) and, in whole
\* hours, uniform(1, 24): the ends of each range, and 0 and 60 days.
ScheduleDaysSamples == {-90, 0, 60}
GraceDaysSamples == {0, 30}
StartHoursSamples == {0, 48}
DurationSamples == {1, 24}

InitGenerate ==
    /\ now = Instant(4, 15, 14)
    /\ work_orders = <<>>
    /\ assets = SubSeq(Fleet, 1, 1)
    /\ failures = <<>>
    /\ failure_columns = FailureColumns
    /\ maintenance_costs = <<>>
    /\ period_days = DefaultPeriodDays
    /\ selection = NoSelection
    /\ table_columns = GeneratedColumns
    /\ ret = NoCall
    /\ before = NoCall
    /\ clock_reads = NoCall

\* One pass of the loop; the clock may have moved on between its two reads.
GenerateWorkOrder ==
    /\ ~Returned("create_schedule_compliance_chart")
    /\ Len(work_orders) < MaxOrders
    /\ \E i \in 1..Len(assets), days \in ScheduleDaysSamples, grace_days \in GraceDaysSamples,
          later_clock \in {now, now + 1}, start_hours \in StartHoursSamples,
          actual_duration \in DurationSamples, open_status \in {"Scheduled", "In Progress"} :
           work_orders' = Append(work_orders,
               generate_work_order(Len(work_orders) + 1, assets[i].AssetID, days, now,
                                   grace_days, later_clock, start_hours, actual_duration,
                                   open_status))
    /\ UNCHANGED <<assets, failures, failure_columns, maintenance_costs, period_days,
                   selection, table_columns, now, ret, before, clock_reads>>

NextGenerate == GenerateWorkOrder \/ CreateScheduleComplianceChart

SpecGenerate == InitGenerate /\ [][NextGenerate]_vars

-----------------------------------------------------------------------------
(* What the claims say, stated on the rows themselves. *)

Permute(df, p) == [i \in 1..Len(df) |-> df[p[i]]]

MaxOf(S) == CHOOSE x \in S : \A y \in S : y <= x

\* Row i is an earlier failure of the asset of row j (equal dates: by position).
Earlier(df, i, j) ==
    /\ df[i].AssetID = df[j].AssetID
    /\ \/ df[i].FailureDate < df[j].FailureDate
       \/ df[i].FailureDate = df[j].FailureDate /\ i < j

EarlierRows(df, j) == {i \in 1..Len(df) : Earlier(df, i, j)}

\* Hours from the failure just before row j, of the same asset, to row j.
GapBefore(df, j) ==
    df[j].FailureDate - MaxOf({df[i].FailureDate : i \in EarlierRows(df, j)})

GapRows(df) == {j \in 1..Len(df) : EarlierRows(df, j) # {}}

GapHours(df) ==
    SumSeq([j \in 1..Len(df) |-> IF j \in GapRows(df) THEN GapBefore(df, j) ELSE 0])

FailuresOf(df, a) == {i \in 1..Len(df) : df[i].AssetID = a}

SomeAssetFailsTwice(df) == \E a \in AssetIDs : Cardinality(FailuresOf(df, a)) >= 2

\* C: failures dated within 30 days of clock; P: in the 30 days before those.
CurrentCount(df, clock) ==
    Cardinality({i \in 1..Len(df) : df[i].FailureDate >= minus_days(clock, WindowDays)})

PreviousCount(df, clock) ==
    Cardinality({i \in 1..Len(df) :
                    /\ df[i].FailureDate >= minus_days(clock, 2 * WindowDays)
                    /\ df[i].FailureDate < minus_days(clock, WindowDays)})

\* (P - C) / P * 100 when both are non-zero, else 0.
CountTrend(df, clock) ==
    LET C == CurrentCount(df, clock)
        P == PreviousCount(df, clock)
    IN  IF C # 0 /\ P # 0 THEN Fin((P - C) * PercentScale, P) ELSE Zero

\* C1: when some asset has two or more failures, mtbf is the mean, in days, of
\* the pooled gaps between consecutive failures of each asset; single-failure
\* assets add no gap and the order of the rows does not matter.
C1_MtbfIsMeanOfPooledGaps ==
    (Returned("calculate_mtbf") /\ SomeAssetFailsTwice(failures)) =>
        /\ ret.calculate_mtbf.mtbf =
               Fin(GapHours(failures), HoursPerDay * Cardinality(GapRows(failures)))
        /\ \A p \in Permutations(1..Len(failures)) :
               calculate_mtbf(Permute(failures, p), assets, now).mtbf = ret.calculate_mtbf.mtbf

\* Two assets, the first with two failures given latest first, the second with one.
C1_Witness ==
    /\ Returned("calculate_mtbf")
    /\ Len(failures) = 3
    /\ failures[1].AssetID = failures[3].AssetID
    /\ failures[2].AssetID # failures[1].AssetID
    /\ failures[1].FailureDate > failures[3].FailureDate
    /\ ret.calculate_mtbf.mtbf = Fin(failures[1].FailureDate - failures[3].FailureDate, HoursPerDay)

\* C2 as stated: for every non-empty failure set mtbf_change is the count trend,
\* whatever the number of failures per asset.
C2_CountTrendAlways ==
    (Returned("calculate_mtbf") /\ failures # <<>>) =>
        ret.calculate_mtbf.mtbf_change = CountTrend(failures, now)

\* C2 amended: mtbf_change is the count trend when some asset has two or more
\* failures, and 0 when no asset has.
C2_CountTrendWhenGaps ==
    (Returned("calculate_mtbf") /\ failures # <<>>) =>
        ret.calculate_mtbf.mtbf_change =
            IF SomeAssetFailsTwice(failures) THEN CountTrend(failures, now) ELSE Zero

C2_Witness ==
    /\ Returned("calculate_mtbf")
    /\ SomeAssetFailsTwice(failures)
    /\ CurrentCount(failures, now) = 1
    /\ PreviousCount(failures, now) = 2
    /\ ret.calculate_mtbf.mtbf_change = Int2F(50)

\* C6: a non-empty failure set in which no asset fails twice gives mtbf = 0, a
\* finite value; an asset with one failure adds no gap, also next to others
\* that do.
C6_NoGapsMtbfZero ==
    (Returned("calculate_mtbf") /\ failures # <<>>) =>
        /\ ~SomeAssetFailsTwice(failures) => ret.calculate_mtbf.mtbf = Zero
        /\ IsFinite(ret.calculate_mtbf.mtbf)
        /\ \A a \in AssetIDs :
               Cardinality(FailuresOf(failures, a)) = 1 => time_diffs(failures, a) = <<>>
        /\ Len(mtbf_by_asset(failures, Unique(Column(failures, "AssetID"))))
               = Cardinality(GapRows(failures))

\* One failure on each of two assets.
C6_Witness ==
    /\ Returned("calculate_mtbf")
    /\ Len(failures) = 2
    /\ failures[1].AssetID # failures[2].AssetID
    /\ ret.calculate_mtbf.mtbf = Zero

-----------------------------------------------------------------------------

HasDowntime == "DowntimeHours" \in failure_columns

DowntimeOver(df, rows) ==
    SumSeq([i \in 1..Len(df) |-> IF i \in rows THEN df[i].DowntimeHours ELSE 0])

CurrentRows(df, clock) ==
    {i \in 1..Len(df) : df[i].FailureDate >= minus_days(clock, WindowDays)}

PreviousRows(df, clock) ==
    {i \in 1..Len(df) :
        /\ df[i].FailureDate >= minus_days(clock, 2 * WindowDays)
        /\ df[i].FailureDate < minus_days(clock, WindowDays)}

\* (previous mean - current mean) / previous mean * 100, and 0 when a window is
\* empty or the previous mean is 0.
DowntimeTrend(df, clock) ==
    LET cur == CurrentRows(df, clock)
        prev == PreviousRows(df, clock)
        cs == DowntimeOver(df, cur)
        ps == DowntimeOver(df, prev)
    IN  IF cur = {} \/ prev = {} \/ ps = 0 THEN Zero
        ELSE Fin((ps * Cardinality(cur) - cs * Cardinality(prev)) * PercentScale,
                 ps * Cardinality(cur))

\* C3: mttr_change is the relative decrease of the mean downtime between the two
\* windows, 0 when a window is empty or the previous mean is 0, and always finite.
C3_MttrChangeGuarded ==
    (Returned("calculate_mttr") /\ HasDowntime /\ failures # <<>>) =>
        /\ IsFinite(ret.calculate_mttr.mttr_change)
        /\ ret.calculate_mttr.mttr_change = DowntimeTrend(failures, now)

\* C4: mttr is the mean of DowntimeHours over all rows, whatever their dates;
\* mttr and mttr_change are 0 when there is no row or no DowntimeHours column.
C4_MttrIsMeanOfAllDowntime ==
    Returned("calculate_mttr") =>
        IF failures = <<>> \/ ~HasDowntime
        THEN ret.calculate_mttr = [mttr |-> Zero, mttr_change |-> Zero]
        ELSE ret.calculate_mttr.mttr =
                 Fin(DowntimeOver(failures, 1..Len(failures)), Len(failures))

\* Downtimes 2, 6, 6 with the last failure older than both windows: mttr = 14/3.
C4_Witness ==
    /\ Returned("calculate_mttr")
    /\ HasDowntime
    /\ Len(failures) = 3
    /\ failures[1].DowntimeHours = 2
    /\ failures[2].DowntimeHours = 6
    /\ failures[3].DowntimeHours = 6
    /\ failures[3].FailureDate < minus_days(now, 2 * WindowDays)
    /\ ret.calculate_mttr.mttr = Fin(14, 3)

-----------------------------------------------------------------------------

\* C5: on an empty failure set calculate_mtbf returns mtbf = mtbf_change = 0 and
\* calculate_mttr returns mttr = mttr_change = 0, for every asset set and
\* reference time.
C5_EmptyFailuresGiveZeros ==
    failures = <<>> =>
        /\ Returned("calculate_mtbf") =>
               ret.calculate_mtbf = [mtbf |-> Zero, mtbf_change |-> Zero]
        /\ Returned("calculate_mttr") =>
               ret.calculate_mttr = [mttr |-> Zero, mttr_change |-> Zero]

\* Both functions have returned on an empty failure set that has its
\* DowntimeHours column, next to a non-empty asset set.
C5_Witness ==
    /\ failures = <<>>
    /\ HasDowntime
    /\ assets # <<>>
    /\ Returned("calculate_mtbf")
    /\ Returned("calculate_mttr")
    /\ ret.calculate_mttr.mttr = Zero
    /\ ret.calculate_mtbf.mtbf = Zero

-----------------------------------------------------------------------------

\* A: the assets with OperationalStatus = Active.
ActiveAssets == Cardinality({i \in 1..Len(assets) : assets[i].OperationalStatus = "Active"})

\* D: the downtime of the failures of the last 30 days, of any asset.
WindowDowntime == DowntimeOver(failures, CurrentRows(failures, now))

\* A * 720: the asset-hours of the window.
PossibleTime == ActiveAssets * WindowDays * HoursPerDay

\* 85.5 = 0.95 * 0.90 * 100
OeeCeiling == Fin(855, 10)

\* C7: oee = oee_change = 0 without an Active asset; otherwise
\* oee = max(0, (A*720 - D) / (A*720)) * 0.95 * 0.90 * 100.
C7_OeeFormula ==
    Returned("calculate_oee") =>
        IF ActiveAssets = 0
        THEN ret.calculate_oee = [oee |-> Zero, oee_change |-> Zero]
        ELSE ret.calculate_oee.oee =
                 IF WindowDowntime >= PossibleTime THEN Zero
                 ELSE Fin((PossibleTime - WindowDowntime) * 95 * 90 * 100,
                          PossibleTime * 100 * 100)

\* The only Active asset is not the one that failed; one failure of 360 hours
\* lies in the window and one of 800 hours just before it: oee = 42.75.
C7_Witness ==
    /\ Returned("calculate_oee")
    /\ ActiveAssets = 1
    /\ \E i \in 1..Len(assets) :
           assets[i].AssetID = "AST-0001" /\ assets[i].OperationalStatus = "Inactive"
    /\ Len(failures) = 2
    /\ failures[1].DowntimeHours = 360 /\ failures[1].FailureDate >= minus_days(now, WindowDays)
    /\ failures[2].DowntimeHours = 800 /\ failures[2].FailureDate < minus_days(now, WindowDays)
    /\ ret.calculate_oee.oee = Fin(4275, 100)

\* C8: 0 <= oee <= 85.5; oee = 85.5 exactly when there is an Active asset and
\* no downtime in the window; oee = 0 when the downtime is at least A * 720.
C8_OeeRange ==
    Returned("calculate_oee") =>
        /\ IsFinite(ret.calculate_oee.oee)
        /\ FLe(Zero, ret.calculate_oee.oee)
        /\ FLe(ret.calculate_oee.oee, OeeCeiling)
        /\ ret.calculate_oee.oee = OeeCeiling <=> (ActiveAssets > 0 /\ WindowDowntime = 0)
        /\ WindowDowntime >= PossibleTime => ret.calculate_oee.oee = Zero

\* One Active asset and more downtime in the window than its 720 hours.
C8_Witness ==
    /\ Returned("calculate_oee")
    /\ ActiveAssets = 1
    /\ WindowDowntime > PossibleTime
    /\ ret.calculate_oee.oee = Zero

-----------------------------------------------------------------------------

\* 00:00 of the first day of the month of clock, and of the month before.
MonthStart(clock) == Instant(MonthOf(clock), 1, 0)
PreviousMonthStart(clock) == Instant(MonthOf(clock) - 1, 1, 0)

AmountOver(df, rows) ==
    SumSeq([i \in 1..Len(df) |-> IF i \in rows THEN df[i].Amount ELSE 0])

\* C9: current_costs sums the records dated on or after the start of the first
\* day of the month of now, previous_costs those of the calendar month before.
C9_CalendarMonthWindows ==
    Returned("calculate_total_maintenance_cost") =>
        /\ current_costs(maintenance_costs, now) =
               AmountOver(maintenance_costs,
                          {i \in 1..Len(maintenance_costs) :
                              maintenance_costs[i].Date >= MonthStart(now)})
        /\ previous_costs(maintenance_costs, now) =
               AmountOver(maintenance_costs,
                          {i \in 1..Len(maintenance_costs) :
                              /\ maintenance_costs[i].Date >= PreviousMonthStart(now)
                              /\ maintenance_costs[i].Date < MonthStart(now)})

\* C10: cost_change = (current_costs - previous_costs) / previous_costs * 100
\* when the function's previous_costs is > 0, and 0 when it is 0 or the cost
\* set is empty; always finite.
C10_CostChangeGuarded ==
    Returned("calculate_total_maintenance_cost") =>
        LET cur == current_costs(maintenance_costs, now)
            prev == previous_costs(maintenance_costs, now)
            change == ret.calculate_total_maintenance_cost.cost_change
        IN  /\ IsFinite(change)
            /\ change = IF maintenance_costs # <<>> /\ prev > 0
                        THEN Fin((cur - prev) * PercentScale, prev)
                        ELSE Zero

\* previous_costs = 0 and current_costs = 500.
C10_Witness ==
    /\ Returned("calculate_total_maintenance_cost")
    /\ previous_costs(maintenance_costs, now) = 0
    /\ current_costs(maintenance_costs, now) = 500
    /\ ret.calculate_total_maintenance_cost.cost_change = Zero

-----------------------------------------------------------------------------

\* C11: total_cost is the sum of Amount over every record, whatever its Date,
\* and is >= 0 when no Amount is negative.
C11_TotalCostIsSumOfAll ==
    Returned("calculate_total_maintenance_cost") =>
        /\ ret.calculate_total_maintenance_cost.total_cost =
               Int2F(AmountOver(maintenance_costs, 1..Len(maintenance_costs)))
        /\ FLe(Zero, ret.calculate_total_maintenance_cost.total_cost)

\* A record of 500 older than the month before the month of now, next to a
\* record of 100 of the month of now: total_cost = 600.
C11_Witness ==
    /\ Returned("calculate_total_maintenance_cost")
    /\ Len(maintenance_costs) = 2
    /\ maintenance_costs[1].Date < PreviousMonthStart(now)
    /\ maintenance_costs[1].Amount = 500
    /\ maintenance_costs[2].Date >= current_month_start(now)
    /\ maintenance_costs[2].Amount = 100
    /\ ret.calculate_total_maintenance_cost.total_cost = Int2F(600)

-----------------------------------------------------------------------------

ActiveRows(df) == {i \in 1..Len(df) : df[i].OperationalStatus = "Active"}

\* C12: total_assets and active_assets count the assets and the Active ones,
\* utilization = active_assets / total_assets * 100, all 0 for no asset; so
\* active_assets <= total_assets and 0 <= utilization <= 100.
C12_Utilization ==
    Returned("calculate_asset_utilization") =>
        LET u == ret.calculate_asset_utilization
        IN  /\ u.total_assets = Len(assets)
            /\ u.active_assets = Cardinality(ActiveRows(assets))
            /\ u.utilization = IF assets = <<>> THEN Zero
                               ELSE Fin(Cardinality(ActiveRows(assets)) * PercentScale,
                                        Len(assets))
            /\ u.active_assets <= u.total_assets
            /\ FLe(Zero, u.utilization) /\ FLe(u.utilization, Int2F(PercentScale))

\* One Active, one Maintenance and one Inactive asset: utilization = 100/3.
C12_Witness ==
    /\ Returned("calculate_asset_utilization")
    /\ Len(assets) = 3
    /\ assets[1].OperationalStatus = "Active"
    /\ assets[2].OperationalStatus = "Maintenance"
    /\ assets[3].OperationalStatus = "Inactive"
    /\ ret.calculate_asset_utilization =
           [utilization |-> Fin(100, 3), active_assets |-> 1, total_assets |-> 3]

-----------------------------------------------------------------------------

LevelsHeld(df) == {df[i].CriticalityLevel : i \in 1..Len(df)}

HoldersOf(df, level) == {i \in 1..Len(df) : df[i].CriticalityLevel = level}

\* The sum of the values of a dict of exact numbers.
RECURSIVE SumOver(_, _)
SumOver(d, keys) ==
    IF keys = {} THEN Zero
    ELSE LET k == CHOOSE k \in keys : TRUE
         IN  FAdd(SumOver(d, keys \ {k}), d[k])

\* The sum of the values of a dict of float64.
RECURSIVE F64SumOver(_, _)
F64SumOver(d, keys) ==
    IF keys = {} THEN F64Zero
    ELSE LET k == CHOOSE k \in keys : TRUE
         IN  F64Add(F64SumOver(d, keys \ {k}), d[k])

\* The float64 values of the dict returned for assets, summed.
Float64Total == F64SumOver(criticality_percentages_float64(assets), LevelsHeld(assets))

\* The keys are the levels held by some asset, each mapped to its share of
\* the assets in percent, a positive number; no key for no asset.
SharesByLevel ==
    LET d == ret.calculate_criticality_distribution
    IN  /\ DOMAIN d = LevelsHeld(assets)
        /\ \A level \in DOMAIN d :
               /\ d[level] = Fin(Cardinality(HoldersOf(assets, level)) * PercentScale,
                                 Len(assets))
               /\ ~FLe(d[level], Zero)
        /\ assets = <<>> => DOMAIN d = {}

\* C14 as stated: the keys of calculate_criticality_distribution are the
\* levels held by some asset, each mapped to count / total * 100 > 0, empty
\* for no asset, and the float64 values of a non-empty dict sum to 100.0.
C14_SharesSumTo100 ==
    Returned("calculate_criticality_distribution") =>
        /\ SharesByLevel
        /\ assets # <<>> => Float64Total = F64OfInt(PercentScale)

\* C14, amended: keys, values and the empty case as stated; the values of a
\* non-empty dict sum to 100 in exact arithmetic, and as float64 to a number
\* between 99 and 101 that need not be 100.0.
C14_SharesSumToAbout100 ==
    Returned("calculate_criticality_distribution") =>
        /\ SharesByLevel
        /\ assets # <<>> =>
               /\ SumOver(ret.calculate_criticality_distribution, LevelsHeld(assets))
                      = Int2F(PercentScale)
               /\ ~F64Less(Float64Total, F64OfInt(PercentScale - 1))
               /\ ~F64Less(F64OfInt(PercentScale + 1), Float64Total)

\* One Critical and two Low assets: 100/3 and 200/3, which as float64 sum to
\* the float64 just below 100.0.
C14_Witness ==
    /\ Returned("calculate_criticality_distribution")
    /\ Len(assets) = 3
    /\ assets[1].CriticalityLevel = "Critical"
    /\ assets[2].CriticalityLevel = "Low"
    /\ assets[3].CriticalityLevel = "Low"
    /\ ret.calculate_criticality_distribution =
           [level \in {"Critical", "Low"} |->
               IF level = "Critical" THEN Fin(100, 3) ELSE Fin(200, 3)]
    /\ F64Less(Float64Total, F64OfInt(PercentScale))

-----------------------------------------------------------------------------

Raised(fn) == Returned(fn) /\ "exception" \in DOMAIN ret[fn]

\* The failures dated within days of clock.
RowsWithin(df, days, clock) ==
    {i \in 1..Len(df) : df[i].FailureDate >= minus_days(clock, days)}

\* C13: for a positive period_days, total_failures counts the failures dated
\* within period_days of now and failure_rate = total_failures / period_days;
\* so failure_rate * period_days = total_failures <= the size of the set, and
\* both are 0 for the empty set.
C13_FailureRate ==
    (Returned("calculate_failure_rate") /\ period_days > 0) =>
        LET r == ret.calculate_failure_rate
            n == Cardinality(RowsWithin(failures, period_days, now))
        IN  /\ ~Raised("calculate_failure_rate")
            /\ r.total_failures = n
            /\ r.failure_rate = Fin(n, period_days)
            /\ FMul(r.failure_rate, Int2F(period_days)) = Int2F(r.total_failures)
            /\ r.total_failures <= Len(failures)
            /\ failures = <<>> => r = [failure_rate |-> Zero, total_failures |-> 0]

\* Three failures, two of them within the 60 days asked for: rate 2/60.
C13_Witness ==
    /\ Returned("calculate_failure_rate")
    /\ period_days = 60
    /\ Len(failures) = 3
    /\ failures[1].FailureDate < minus_days(now, 60)
    /\ failures[2].FailureDate = minus_days(now, 60)
    /\ failures[3].FailureDate < minus_days(now, 30)
    /\ ret.calculate_failure_rate = [failure_rate |-> Fin(1, 30), total_failures |-> 2]

\* C18: calculate_failure_rate returns normally for every period_days, and
\* failure_rate is 0 when period_days is 0.
C18_FailureRateNeverRaises ==
    Returned("calculate_failure_rate") =>
        /\ ~Raised("calculate_failure_rate")
        /\ period_days = 0 => ret.calculate_failure_rate.failure_rate = Zero

-----------------------------------------------------------------------------

KpiKeys ==
    { "mtbf", "mtbf_change", "mttr", "mttr_change", "oee", "oee_change",
      "total_cost", "cost_change", "utilization", "active_assets", "total_assets",
      "failure_rate", "total_failures", "criticality_distribution" }

\* C15: calculate_all_kpis returns exactly the 14 keys, each with the value
\* that its single-metric function returns on the same assets, failures and
\* maintenance_costs at the instant it read (failure rate over 30 days,
\* oee_change one of the values calculate_oee can return), and the same for
\* every work_orders collection.
C15_AllKpisAreTheSingleMetrics ==
    Returned("calculate_all_kpis") =>
        LET k == ret.calculate_all_kpis
            reads == clock_reads.calculate_all_kpis
            mtbf_data == calculate_mtbf(failures, assets, reads.calculate_mtbf)
            mttr_data == calculate_mttr(failures, failure_columns,
                                        reads.calculate_mttr)
            cost_data == calculate_total_maintenance_cost(maintenance_costs,
                             reads.calculate_total_maintenance_cost)
            utilization_data == calculate_asset_utilization(assets)
            failure_rate_data == calculate_failure_rate(failures, DefaultPeriodDays,
                                     reads.calculate_failure_rate)
        IN  /\ DOMAIN k = KpiKeys
            /\ k.mtbf = mtbf_data.mtbf /\ k.mtbf_change = mtbf_data.mtbf_change
            /\ k.mttr = mttr_data.mttr /\ k.mttr_change = mttr_data.mttr_change
            /\ \E u \in UniformSamples :
                   LET oee_data == calculate_oee(assets, failures,
                                                 reads.calculate_oee, u)
                   IN  k.oee = oee_data.oee /\ k.oee_change = oee_data.oee_change
            /\ k.total_cost = cost_data.total_cost
            /\ k.cost_change = cost_data.cost_change
            /\ k.utilization = utilization_data.utilization
            /\ k.active_assets = utilization_data.active_assets
            /\ k.total_assets = utilization_data.total_assets
            /\ k.failure_rate = failure_rate_data.failure_rate
            /\ k.total_failures = failure_rate_data.total_failures
            /\ k.criticality_distribution = calculate_criticality_distribution(assets)
            /\ \A w \in KpiWorkOrders :
                   \E u \in UniformSamples :
                       calculate_all_kpis([Data EXCEPT !.work_orders = w],
                                          failure_columns, reads, u) = k

\* Two assets, two failures of AST-0001 30 days apart, the earlier one older
\* than 30 days, costs in both months and a scheduled work order.
C15_Witness ==
    /\ Returned("calculate_all_kpis")
    /\ Len(assets) = 2 /\ Len(failures) = 2 /\ Len(maintenance_costs) = 2
    /\ work_orders # <<>>
    /\ ret.calculate_all_kpis.mtbf = Int2F(30)
    /\ ret.calculate_all_kpis.mttr = Int2F(8)
    /\ ret.calculate_all_kpis.total_cost = Int2F(500)
    /\ ret.calculate_all_kpis.cost_change = Int2F(50)
    /\ ret.calculate_all_kpis.utilization = Int2F(50)
    /\ ret.calculate_all_kpis.total_failures = 1
    /\ ret.calculate_all_kpis.failure_rate = Fin(1, 30)
    /\ DOMAIN ret.calculate_all_kpis.criticality_distribution = {"Critical", "Low"}

-----------------------------------------------------------------------------

\* fn has been called twice and both calls read the same from the clock.
CalledTwice(fn) ==
    /\ fn \in DOMAIN before
    /\ before[fn].clock = clock_reads[fn]

C17_OeeChangeIsAFunction ==
    CalledTwice("calculate_oee") =>
        ret.calculate_oee.oee_change = before.calculate_oee.returned.oee_change

-----------------------------------------------------------------------------

AssetIDsOf(df) == {df[i].AssetID : i \in 1..Len(df)}

\* The failures whose AssetID no asset has.
OrphanRows == {i \in 1..Len(failures) : failures[i].AssetID \notin AssetIDsOf(assets)}

\* df without its row i.
Without(df, i) == SubSeq(df, 1, i - 1) \o SubSeq(df, i + 1, Len(df))

IsRaise(returned) == "exception" \in DOMAIN returned

\* C19: with a failure of an AssetID that no asset has in the failure set, no
\* function raises that returns without it, calculate_mtbf computes the same
\* gaps for every other AssetID, and utilization, active_assets, total_assets
\* and the criticality distribution are what they are without it.
C19_OrphanFailureIsHarmless ==
    \A i \in OrphanRows :
        LET fewer == Without(failures, i)
        IN  /\ Returned("calculate_mtbf") =>
                   /\ ~Raised("calculate_mtbf")
                   /\ \A a \in AssetIDsOf(failures) \ {failures[i].AssetID} :
                          time_diffs(failures, a) = time_diffs(fewer, a)
            /\ Returned("calculate_failure_rate") =>
                   (~IsRaise(calculate_failure_rate(fewer, period_days, now))
                        => ~Raised("calculate_failure_rate"))
            /\ Returned("calculate_asset_utilization") =>
                   ret.calculate_asset_utilization = calculate_asset_utilization(assets)
            /\ Returned("calculate_criticality_distribution") =>
                   ret.calculate_criticality_distribution =
                       calculate_criticality_distribution(assets)

\* The failures of the assets of assets_df.
OfKnownAssets(df, assets_df) ==
    SelectSeq(df, LAMBDA r : r.AssetID \in AssetIDsOf(assets_df))

\* C20: mtbf over (failures, assets) is mtbf over the failures of the assets
\* in assets: the gaps of an AssetID that no asset has are not in the pool.
C20_OrphanGapsExcluded ==
    Returned("calculate_mtbf") =>
        ret.calculate_mtbf.mtbf =
            calculate_mtbf(OfKnownAssets(failures, assets), assets, now).mtbf

-----------------------------------------------------------------------------

\* C21: within one calculate_all_kpis call every windowed function reads the
\* same instant, so total_failures is the count of the current window that
\* calculate_mtbf uses for mtbf_change.
C21_OneReferenceInstant ==
    Returned("calculate_all_kpis") =>
        LET reads == clock_reads.calculate_all_kpis
        IN  /\ \A f, g \in DOMAIN reads : reads[f] = reads[g]
            /\ ret.calculate_all_kpis.total_failures =
                   CurrentCount(failures, reads.calculate_mtbf)

-----------------------------------------------------------------------------

\* row is a row of df.
RowOf(df, row) == \E j \in 1..Len(df) : df[j] = row

\* C22: for cutoff = now - 30 days, the previous window of calculate_mtbf and
\* calculate_mttr is the failures with cutoff - 30 days <= FailureDate < cutoff
\* and the current window those with FailureDate >= cutoff; no failure is in
\* both, one dated at the cutoff is in the current window only, one older than
\* now - 60 days is in neither, and the two trends are taken over these windows.
C22_AdjacentDisjointWindows ==
    (Returned("calculate_mtbf") \/ Returned("calculate_mttr")) =>
        LET cutoff == minus_days(now, WindowDays)
            recent == recent_failures(failures, cutoff)
            previous == previous_failures(failures, cutoff)
            cur == CurrentRows(failures, now)
            prev == PreviousRows(failures, now)
        IN  /\ Len(recent) = Cardinality(cur) /\ Len(previous) = Cardinality(prev)
            /\ \A i \in 1..Len(failures) :
                   LET row == failures[i]
                   IN  /\ RowOf(recent, row) <=> row.FailureDate >= cutoff
                       /\ RowOf(previous, row) <=>
                              /\ row.FailureDate >= minus_days(cutoff, WindowDays)
                              /\ row.FailureDate < cutoff
                       /\ ~(RowOf(recent, row) /\ RowOf(previous, row))
                       /\ row.FailureDate = cutoff =>
                              RowOf(recent, row) /\ ~RowOf(previous, row)
                       /\ row.FailureDate < minus_days(now, 2 * WindowDays) =>
                              ~RowOf(recent, row) /\ ~RowOf(previous, row)
            /\ (Returned("calculate_mtbf") /\ SomeAssetFailsTwice(failures)) =>
                   ret.calculate_mtbf.mtbf_change = CountTrend(failures, now)
            /\ (Returned("calculate_mttr") /\ DowntimeOver(failures, prev) # 0) =>
                   ret.calculate_mttr.mttr_change = DowntimeTrend(failures, now)

\* A failure older than 60 days, one just before the cutoff with 6 hours of
\* downtime and one at the cutoff with none: counts 1 and 1, means 6 and 0.
C22_Witness ==
    /\ Returned("calculate_mtbf") /\ Returned("calculate_mttr")
    /\ Len(failures) = 3
    /\ failures[1].FailureDate = minus_days(now, 2 * WindowDays) - 1
    /\ failures[2].FailureDate = minus_days(now, WindowDays) - 1
    /\ failures[2].DowntimeHours = 6
    /\ failures[3].FailureDate = minus_days(now, WindowDays)
    /\ failures[3].DowntimeHours = 0
    /\ ret.calculate_mtbf.mtbf_change = Zero
    /\ ret.calculate_mttr.mttr_change = Int2F(100)
-----------------------------------------------------------------------------
(* The filtered view. *)

\* The rows of a frame, as a set.
Rows(df) == {df[i] : i \in 1..Len(df)}

\* The asset row fits the sidebar's choices.
MatchesSelection(a) ==
    /\ selection.asset_type \in {"All", a.AssetType}
    /\ selection.location \in {"All", a.Location}
    /\ selection.criticality \in {"All", a.CriticalityLevel}

\* The instant is between the midnights of the date range's two dates.
InDateRange(t) ==
    /\ t # NaT
    /\ Timestamp(selection.date_range[1]) <= t
    /\ t <= Timestamp(selection.date_range[2])

\* C23: in the view apply_filters returns, every failure, work order and
\* maintenance cost has the AssetID of a returned asset, every returned asset
\* matches the selected type, location and criticality ('All' restricting
\* nothing), and every returned failure date and cost date is within the
\* closed date range.
C23_ConsistentFilteredView ==
    Returned("apply_filters") =>
        LET view == ret.apply_filters
            ids == {a.AssetID : a \in Rows(view.assets)}
        IN  /\ \A r \in Rows(view.failures) \cup Rows(view.work_orders)
                          \cup Rows(view.maintenance_costs) : r.AssetID \in ids
            /\ \A a \in Rows(view.assets) : MatchesSelection(a)
            /\ \A r \in Rows(view.failures) : InDateRange(r.FailureDate)
            /\ \A r \in Rows(view.maintenance_costs) : InDateRange(r.Date)

\* A restricting choice kept one of two assets together with records of
\* each kind, and dropped records of the other asset and of no asset.
C23_Witness ==
    /\ Returned("apply_filters")
    /\ selection.asset_type = "Motor"
    /\ Len(assets) = 2 /\ Len(ret.apply_filters.assets) = 1
    /\ ret.apply_filters.failures # <<>>
    /\ ret.apply_filters.work_orders # <<>>
    /\ ret.apply_filters.maintenance_costs # <<>>
    /\ \E r \in Rows(failures) :
           /\ r.AssetID = "AST-0404"
           /\ InDateRange(r.FailureDate)
    /\ \E r \in Rows(failures) :
           /\ r.AssetID = ret.apply_filters.assets[1].AssetID
           /\ ~InDateRange(r.FailureDate)

\* C24: apply_filters and calculate_all_kpis leave what they are given as it
\* was: the four collections that were passed in hold the same records after
\* either call, and the view given to calculate_all_kpis is the same view
\* afterwards.
C24_InputsUnchanged ==
    [][/\ <<assets, failures, work_orders, maintenance_costs>>'
              = <<assets, failures, work_orders, maintenance_costs>>
       /\ Returned("apply_filters") => ret'.apply_filters = ret.apply_filters]_vars

\* Both calls were made, the view holds fewer records of every kind than
\* the collections it was taken from, and those are as generated.
C24_Witness ==
    /\ Returned("apply_filters") /\ Returned("calculate_all_kpis")
    /\ assets # <<>>
    /\ Len(ret.apply_filters.assets) < Len(assets)
    /\ Len(ret.apply_filters.failures) < Len(failures)
    /\ Len(ret.apply_filters.work_orders) < Len(work_orders)
    /\ Len(ret.apply_filters.maintenance_costs) < Len(maintenance_costs)
    /\ failures = FilterFailures
    /\ work_orders = FilterWorkOrders
    /\ maintenance_costs = FilterCosts

\* maintenance_schedule_dashboard's selection of upcoming maintenance.
upcoming(work_orders_df, clock) ==
    SelectSeq(work_orders_df,
              LAMBDA r : r.ScheduledDate >= clock /\ r.Status = "Scheduled")

\* CompletionDate is present only for Completed orders.
CompletionOnlyWhenCompleted(work_orders_df) ==
    \A r \in Rows(work_orders_df) : r.CompletionDate # NaT => r.Status = "Completed"

\* C28: every work order of the view apply_filters returns has a
\* CompletionDate that is present and within the date range; an order
\* without one is never in the view, and when CompletionDate is present only
\* for Completed orders the view holds no order that the upcoming-maintenance
\* selection matches.
C28_ViewHoldsOnlyCompletedOrders ==
    Returned("apply_filters") =>
        /\ \A r \in Rows(ret.apply_filters.work_orders) : InDateRange(r.CompletionDate)
        /\ CompletionOnlyWhenCompleted(work_orders) =>
               upcoming(ret.apply_filters.work_orders, now) = <<>>

\* An asset is in the view with orders of its own, while a scheduled order
\* of that asset, due after now, is in the data and not in the view.
C28_Witness ==
    /\ Returned("apply_filters")
    /\ CompletionOnlyWhenCompleted(work_orders)
    /\ ret.apply_filters.work_orders # <<>>
    /\ \E r \in Rows(upcoming(work_orders, now)) :
           /\ r.CompletionDate = NaT
           /\ \E a \in Rows(ret.apply_filters.assets) : a.AssetID = r.AssetID
           /\ r \notin Rows(ret.apply_filters.work_orders)

\* What every metric is when there is nothing to measure.
NoKpis ==
    [mtbf |-> Zero, mtbf_change |-> Zero, mttr |-> Zero, mttr_change |-> Zero,
     oee |-> Zero, oee_change |-> Zero, total_cost |-> Zero, cost_change |-> Zero,
     utilization |-> Zero, active_assets |-> 0, total_assets |-> 0,
     failure_rate |-> Zero, total_failures |-> 0,
     criticality_distribution |-> <<>>]

\* C30: when no asset matches the chosen type, location and criticality, the
\* returned failures, work orders and maintenance costs are empty, and
\* calculate_all_kpis on that view raises nothing and returns 0 for every
\* metric and an empty criticality distribution.
C30_EmptySelectionGivesZeros ==
    (Returned("apply_filters") /\ ret.apply_filters.assets = <<>>) =>
        /\ ret.apply_filters.failures = <<>>
        /\ ret.apply_filters.work_orders = <<>>
        /\ ret.apply_filters.maintenance_costs = <<>>
        /\ Returned("calculate_all_kpis") =>
               /\ ~Raised("calculate_all_kpis")
               /\ ret.calculate_all_kpis = NoKpis

\* Two assets with records in the date range, none of them of the chosen
\* type and location, and both calls made.
C30_Witness ==
    /\ Returned("apply_filters") /\ Returned("calculate_all_kpis")
    /\ Len(assets) = 2
    /\ ret.apply_filters.assets = <<>>
    /\ \E r \in Rows(failures) :
           /\ r.AssetID = assets[1].AssetID
           /\ InDateRange(r.FailureDate)
    /\ \E r \in Rows(maintenance_costs) :
           /\ r.AssetID = assets[1].AssetID
           /\ InDateRange(r.Date)
-----------------------------------------------------------------------------
(* Schedule compliance. *)

\* The completed work orders finished by their scheduled instant, and the
\* other completed ones, as positions in work_orders.
CompletedOrders == {i \in 1..Len(work_orders) : work_orders[i].Status = "Completed"}

OnTimeOrders ==
    {i \in CompletedOrders : /\ work_orders[i].CompletionDate # NaT
                             /\ work_orders[i].CompletionDate <= work_orders[i].ScheduledDate}

LateOrders ==
    {i \in CompletedOrders : \/ work_orders[i].CompletionDate = NaT
                             \/ work_orders[i].CompletionDate > work_orders[i].ScheduledDate}

\* C25: the compliance rate is the percentage of the Completed work orders
\* whose CompletionDate <= ScheduledDate; a completed order with a later
\* CompletionDate is late, orders of any other status count for nothing, the
\* two shares add up to 100, and with no completed work order the figure is
\* a no-data annotation and holds no rate.
C25_ComplianceRate ==
    Returned("create_schedule_compliance_chart") =>
        LET fig == ret.create_schedule_compliance_chart
        IN  IF CompletedOrders = {}
            THEN DOMAIN fig = {"annotation"}
            ELSE /\ DOMAIN fig = {"labels", "values"}
                 /\ fig.values[1] = mean_percent(Cardinality(OnTimeOrders),
                                                 Cardinality(CompletedOrders))
                 /\ fig.values[2] = F64Sub(F64OfInt(PercentScale), fig.values[1])
                 /\ F64Add(fig.values[1], fig.values[2]) = F64OfInt(PercentScale)
                 /\ OnTimeOrders = CompletedOrders <=> fig.values[1] = F64OfInt(PercentScale)
                 /\ OnTimeOrders = {} <=> fig.values[1] = F64Zero
                 /\ LateOrders = {} <=> fig.values[2] = F64Zero

\* One of three orders is not completed and has an early CompletionDate,
\* one was completed at its scheduled instant and one after it.
C25_Witness ==
    /\ Returned("create_schedule_compliance_chart")
    /\ Len(work_orders) = 3
    /\ Cardinality(OnTimeOrders) = 1 /\ Cardinality(LateOrders) = 1
    /\ \E i \in OnTimeOrders : work_orders[i].CompletionDate = work_orders[i].ScheduledDate
    /\ \E i \in 1..3 : /\ work_orders[i].Status = "Scheduled"
                       /\ work_orders[i].CompletionDate # NaT
    /\ ret.create_schedule_compliance_chart.values[1] = F64OfInt(50)

\* Three completed orders, one of them on time: the shares are not whole.
C25_WitnessThirds ==
    /\ Returned("create_schedule_compliance_chart")
    /\ Cardinality(CompletedOrders) = 3 /\ Cardinality(OnTimeOrders) = 1
    /\ F64Less(F64OfInt(33), ret.create_schedule_compliance_chart.values[1])
    /\ F64Less(ret.create_schedule_compliance_chart.values[1], F64OfInt(34))
-----------------------------------------------------------------------------
(* Validation. *)

\* Some table that data holds lacks one of its required columns.
RequiredColumnMissing ==
    \E table \in DOMAIN table_columns :
        \E i \in 1..Len(required_columns[table]) :
            required_columns[table][i] \notin table_columns[table]

\* data holds both tables and some failure has the AssetID of no asset.
OrphanedReference ==
    /\ {"assets", "failures"} \subseteq DOMAIN table_columns
    /\ \E i \in 1..Len(failures) :
           \A j \in 1..Len(assets) : failures[i].AssetID # assets[j].AssetID

\* C26: an orphaned reference is a warning only.  With every required column
\* present validate_data returns, and with an orphaned reference the result
\* has valid = True, no error and a warning; valid is False only when a
\* required column is missing, and then errors is not empty.
C26_OrphansOnlyWarn ==
    Returned("validate_data") =>
        /\ ~RequiredColumnMissing =>
               /\ ~Raised("validate_data")
               /\ ret.validate_data.valid
               /\ ret.validate_data.errors = <<>>
               /\ OrphanedReference => ret.validate_data.warnings # <<>>
        /\ (~Raised("validate_data") /\ ~ret.validate_data.valid) =>
               /\ RequiredColumnMissing
               /\ ret.validate_data.errors # <<>>

\* All four tables with every column, two assets, and failures of one of
\* them and of two AssetIDs of no asset: valid, with one warning.
C26_Witness ==
    /\ Returned("validate_data")
    /\ table_columns = GeneratedColumns
    /\ Len(assets) = 2 /\ Len(failures) = 3
    /\ OrphanedReference
    /\ ret.validate_data = [valid |-> TRUE, errors |-> <<>>,
                            warnings |-> <<[orphaned |-> 2]>>]

\* A required column is missing while a failure is orphaned: not valid, an
\* error and a warning.
C26_WitnessInvalid ==
    /\ Returned("validate_data") /\ ~Raised("validate_data")
    /\ OrphanedReference
    /\ ~ret.validate_data.valid
    /\ Len(ret.validate_data.errors) = 2
    /\ ret.validate_data.warnings # <<>>
-----------------------------------------------------------------------------
(* Failures dated after now. *)

FutureRows == {i \in 1..Len(failures) : failures[i].FailureDate > now}

\* The failures of the 30 days up to now.
ElapsedRows ==
    {i \in 1..Len(failures) : /\ failures[i].FailureDate >= minus_days(now, WindowDays)
                              /\ failures[i].FailureDate <= now}

\* C27: a failure dated after now is counted in the current window.  With
\* the failures of the last 30 days it makes up total_failures and
\* failure_rate, the current count of mtbf_change and the current mean of
\* mttr_change, and its DowntimeHours is part of the OEE downtime.
C27_FutureFailuresAreCurrent ==
    LET cur == FutureRows \cup ElapsedRows
        prev == PreviousRows(failures, now)
        C == Cardinality(cur)
        P == Cardinality(prev)
        cs == DowntimeOver(failures, cur)
        ps == DowntimeOver(failures, prev)
    IN  /\ Returned("calculate_failure_rate") =>
               /\ ret.calculate_failure_rate.total_failures = C
               /\ ret.calculate_failure_rate.failure_rate = Fin(C, WindowDays)
        /\ (Returned("calculate_mtbf") /\ SomeAssetFailsTwice(failures)) =>
               ret.calculate_mtbf.mtbf_change =
                   IF C # 0 /\ P # 0 THEN Fin((P - C) * PercentScale, P) ELSE Zero
        /\ Returned("calculate_mttr") =>
               ret.calculate_mttr.mttr_change =
                   IF C # 0 /\ P # 0
                   THEN Fin((ps * C - cs * P) * PercentScale, ps * C)
                   ELSE Zero
        /\ Returned("calculate_oee") =>
               ret.calculate_oee.oee =
                   Fin((PossibleTime - cs) * 95 * 90 * 100, PossibleTime * 100 * 100)

\* One failure after now, one in the last 30 days and one before them: two
\* are current, and the four metrics were computed.
C27_Witness ==
    /\ Returned("calculate_failure_rate") /\ Returned("calculate_mtbf")
    /\ Returned("calculate_mttr") /\ Returned("calculate_oee")
    /\ Cardinality(FutureRows) = 1 /\ Cardinality(ElapsedRows) = 1
    /\ Cardinality(PreviousRows(failures, now)) = 1
    /\ \E i \in FutureRows : failures[i].DowntimeHours = 12
    /\ \E i \in ElapsedRows : failures[i].DowntimeHours = 4
    /\ \E i \in PreviousRows(failures, now) : failures[i].DowntimeHours = 4
    /\ ret.calculate_failure_rate.total_failures = 2
    /\ ret.calculate_mtbf.mtbf_change = Int2F(-100)
    /\ ret.calculate_mttr.mttr_change = Int2F(-100)
    /\ ret.calculate_oee.oee = Fin((2160 - 16) * 855, 21600)
-----------------------------------------------------------------------------
(* Generated work orders. *)

\* C29: a generated work order has CompletionDate, StartDate and
\* ActualDuration exactly when its Status is Completed, and a completed one
\* has ScheduledDate <= StartDate < CompletionDate; so every generated
\* completed order is late, and the on-time share of the compliance chart
\* over generated work orders is 0.
C29_GeneratedOrdersAreLate ==
    /\ \A r \in Rows(work_orders) :
           /\ r.CompletionDate # NaT <=> r.Status = "Completed"
           /\ r.StartDate # NaT <=> r.Status = "Completed"
           /\ r.ActualDuration # NaN <=> r.Status = "Completed"
           /\ r.Status \in {"Completed", "Scheduled", "In Progress"}
           /\ r.Status = "Completed" =>
                  /\ r.ScheduledDate <= r.StartDate
                  /\ r.StartDate < r.CompletionDate
                  /\ r.CompletionDate > r.ScheduledDate
    /\ (/\ Returned("create_schedule_compliance_chart")
        /\ "values" \in DOMAIN ret.create_schedule_compliance_chart) =>
           ret.create_schedule_compliance_chart.values
               = <<F64Zero, F64OfInt(PercentScale)>>

\* Three generated orders, one started at its scheduled instant and done an
\* hour later, one scheduled 90 days ahead, one in progress: the chart was
\* drawn with an on-time share of 0.
C29_Witness ==
    /\ Returned("create_schedule_compliance_chart")
    /\ Len(work_orders) = 3
    /\ \E r \in Rows(work_orders) :
           /\ r.Status = "Completed"
           /\ r.StartDate = r.ScheduledDate
           /\ r.CompletionDate = r.ScheduledDate + 1
    /\ \E r \in Rows(work_orders) :
           r.Status = "Scheduled" /\ r.ScheduledDate = now + 90 * HoursPerDay
    /\ \E r \in Rows(work_orders) : r.Status = "In Progress"
    /\ ret.create_schedule_compliance_chart.values[1] = F64Zero

====
